---------------------------- MODULE Spec2Model ----------------------------
(***************************************************************************)
(* A model of humbug's terminal emulator, TerminalWidget                   *)
(* (src/src/humbug/gui/terminal/terminal_widget.py).                       *)
(*                                                                         *)
(* The widget keeps the character grid in the QPlainTextEdit's text        *)
(* document.  The document is modelled as one flat sequence of cells       *)
(* (character + format) in which the cell NL separates blocks, the way     *)
(* QTextDocument stores it; a cursor is a pair (anchor, position) of       *)
(* offsets into that sequence.  The widget's own text cursor `tc' is an    *)
(* offset that the document shifts under every edit, and `fv' is the       *)
(* number of the first block the viewport shows.  The tracked terminal     *)
(* cursor (_cursor_row, _cursor_col) is separate state, as in the source.  *)
(***************************************************************************)
EXTENDS Integers, Sequences, FiniteSets, TLC

---------------------------------------------------------------------------
(* Characters.  A character is a one-element token; control characters     *)
(* that TLA+ strings cannot hold are named.                                *)
ESC == "ESC"
BEL == "BEL"
BS  == "BS"
NL  == "\n"
CR  == "\r"
TAB == "\t"
SP  == " "
GRAVE == "GRAVE"

Digits == {"0", "1", "2", "3", "4", "5", "6", "7", "8", "9"}

\* str.isalpha() over the characters the model feeds.
Alpha ==
    {"a", "b", "c", "d", "e", "f", "g", "h", "i", "j", "k", "l", "m", "n", "o",
     "p", "q", "r", "s", "t", "u", "v", "w", "x", "y", "z",
     "A", "B", "C", "D", "E", "F", "G", "H", "I", "J", "K", "L", "M", "N", "O",
     "P", "Q", "R", "S", "T", "U", "V", "W", "X", "Y", "Z"}

Min(a, b) == IF a <= b THEN a ELSE b
Max(a, b) == IF a >= b THEN a ELSE b
SetMax(S) == CHOOSE x \in S : \A y \in S : y <= x
SetMin(S) == CHOOSE x \in S : \A y \in S : x <= y

\* s[from..] and s[..to] with Python's slice semantics on 1-based sequences.
Slice(s, lo, hi) == IF lo > hi THEN << >> ELSE SubSeq(s, lo, hi)

\* ' ' * n; a negative n gives the empty string, as in Python.
Repeat(c, n) == [i \in 1..(IF n > 0 THEN n ELSE 0) |-> c]

---------------------------------------------------------------------------
(* Character formats: the QTextCharFormat attributes the widget sets and   *)
(* the FormatProperty markers that say which of them are explicit.         *)
\* The colour modes of the style manager and the colour get_color(role) gives
\* in a mode.
ColorModes == { "DARK", "LIGHT" }
GetColor(mode, role) == << mode, role >>

\* _update_default_format(): the default format in a colour mode.
UpdateDefaultFormat(mode) ==
    [fg |-> GetColor(mode, "TEXT_PRIMARY"), bg |-> GetColor(mode, "TAB_BACKGROUND_ACTIVE"),
     weight |-> "Normal", italic |-> FALSE, underline |-> FALSE, custom |-> {}]

\* The colour mode at construction and the default format it gives.
InitialMode == "DARK"
DefaultFormat == UpdateDefaultFormat(InitialMode)

Cell(c, f) == [c |-> c, f |-> f]
Cells(chars, f) == [i \in 1..Len(chars) |-> Cell(chars[i], f)]
Text(doc) == [i \in 1..Len(doc) |-> doc[i].c]

---------------------------------------------------------------------------
(* The text document and its cursors.                                      *)

\* Indices of the block separators of a document.
Seps(doc) == {i \in 1..Len(doc) : doc[i].c = NL}

BlockCount(doc) == Cardinality(Seps(doc)) + 1

\* QTextCursor.blockNumber() of a cursor at offset p.
BlockNumber(doc, p) == Cardinality({i \in Seps(doc) : i <= p})

\* QTextBlock.position() of the block holding offset p.
BlockStart(doc, p) == SetMax({0} \cup {i \in Seps(doc) : i <= p})

\* Offset of the end of the block holding p (before its separator).
BlockEnd(doc, p) == SetMin({Len(doc)} \cup {i - 1 : i \in {j \in Seps(doc) : j > p}})

\* QTextCursor.columnNumber().
ColumnNumber(doc, p) == p - BlockStart(doc, p)

\* Offset of the start of block n (0-based), n < BlockCount(doc).
NthBlockStart(doc, n) ==
    IF n = 0 THEN 0
    ELSE CHOOSE i \in Seps(doc) : Cardinality({j \in Seps(doc) : j <= i}) = n

\* The characters of block n, without the separator.
BlockText(doc, n) ==
    LET s == NthBlockStart(doc, n)
    IN  [i \in 1..(BlockEnd(doc, s) - s) |-> doc[s + i].c]

\* movePosition(NextBlock, n=n) from offset p: each step goes to the start of
\* the next block and the move stops at the first step that fails.
MoveNextBlock(doc, p, n) ==
    LET b == BlockNumber(doc, p)
        last == BlockCount(doc) - 1
    IN  IF n <= 0 \/ b = last THEN p ELSE NthBlockStart(doc, Min(b + n, last))

\* movePosition(Right, n=n): one character per step, across separators, up to
\* the end of the document.
MoveRight(doc, p, n) == Min(p + Max(n, 0), Len(doc))

\* movePosition(Down) / movePosition(Up): same column in the neighbouring
\* line, clipped to its length; on the last line Down goes to the end of the
\* line, on the first line Up goes to its start.
MoveDown(doc, p) ==
    LET e == BlockEnd(doc, p)
    IN  IF e = Len(doc) THEN e
        ELSE Min(e + 1 + ColumnNumber(doc, p), BlockEnd(doc, e + 1))

MoveUp(doc, p) ==
    LET s == BlockStart(doc, p)
    IN  IF s = 0 THEN 0
        ELSE Min(BlockStart(doc, s - 1) + ColumnNumber(doc, p), s - 1)

\* QTextCursorPrivate::adjustPosition for another cursor at offset q when
\* [lo, hi) is removed and k characters are then inserted at lo.
AdjustRemoved(q, lo, hi) == IF q < lo THEN q ELSE IF q < hi THEN lo ELSE q - (hi - lo)
AdjustInserted(q, lo, k) == IF q < lo \/ k = 0 THEN q ELSE q + k

(* A cursor at work on the document: K = [doc, tc, a, p] holds the         *)
(* document, the widget's own cursor offset, and the working cursor's      *)
(* anchor and position.                                                    *)
Cur(doc, tc, p) == [doc |-> doc, tc |-> tc, a |-> p, p |-> p]

\* insertText(cells): the selection, if any, is removed, the cells go in at
\* its start, and the working cursor ends after them with no selection.
InsertCells(K, cells) ==
    LET lo == Min(K.a, K.p)
        hi == Max(K.a, K.p)
        nd == Slice(K.doc, 1, lo) \o cells \o Slice(K.doc, hi + 1, Len(K.doc))
    IN  [doc |-> nd,
         tc  |-> AdjustInserted(AdjustRemoved(K.tc, lo, hi), lo, Len(cells)),
         a   |-> lo + Len(cells),
         p   |-> lo + Len(cells)]

\* removeSelectedText().
RemoveSelected(K) == InsertCells(K, << >>)

\* setPosition(q): an offset outside the document is refused and the cursor
\* stays where it is.
SetPosition(K, q) ==
    IF q < 0 \/ q > Len(K.doc) THEN K ELSE [K EXCEPT !.a = q, !.p = q]

\* movePosition(Right, KeepAnchor).
SelectRight(K) == [K EXCEPT !.p = MoveRight(K.doc, K.p, 1)]

\* selectedText() of a selection of at most one character.
SelectedChar(K) == IF K.a = K.p THEN "" ELSE K.doc[Min(K.a, K.p) + 1].c

\* charFormat(): the format of the character before the cursor position, or
\* of the character after it when the cursor is at the start of a block that
\* is not empty.
CharFormat(K) ==
    LET pos == IF K.p = BlockStart(K.doc, K.p) /\ BlockEnd(K.doc, K.p) > K.p
               THEN K.p ELSE K.p - 1
    IN  IF pos = -1 THEN DefaultFormat ELSE K.doc[pos + 1].f

\* The cursor moved to Start, n blocks down, to the start of the line and
\* col characters right: the addressing every handler of the tracked cursor
\* uses.
Locate(doc, block, col) ==
    MoveRight(doc, BlockStart(doc, MoveNextBlock(doc, 0, block)), col)

---------------------------------------------------------------------------
(* The widget.  A terminal state t is a record of the fields __init__      *)
(* sets, the document, the widget cursor and the first visible block, plus *)
(* what the last entry-point call emitted (out) and raised (exc).          *)

None == << >>

TerminalSize(rows, cols) == [rows |-> rows, cols |-> cols]

\* firstVisibleBlock().blockNumber(): the scroll position, kept inside the
\* scroll bar's range for the current document.
FirstVisible(t) == Min(t.fv, Max(0, BlockCount(t.doc) - t.current_size.rows))

\* ensureCursorVisible(): the viewport scrolls just far enough to show the
\* block of the widget's text cursor.
EnsureCursorVisible(t) ==
    LET b == BlockNumber(t.doc, t.tc)
        f == FirstVisible(t)
    IN  [t EXCEPT !.fv = IF b < f THEN b
                         ELSE IF b > f + t.current_size.rows - 1
                              THEN b - t.current_size.rows + 1
                              ELSE f]

\* setTextCursor(cursor): the widget takes the cursor's position and scrolls
\* it into view.
SetTextCursor(t, p) == EnsureCursorVisible([t EXCEPT !.tc = p])

\* A working cursor on t's document, and t with a worked-on document.
Work(t, p) == Cur(t.doc, t.tc, p)
Store(t, K) == [t EXCEPT !.doc = K.doc, !.tc = K.tc]

\* data_ready.emit(bytes)
Emit(t, bytes) == [t EXCEPT !.out = Append(@, bytes)]

\* An exception leaving a handler.
Raise(t, e) == [t EXCEPT !.exc = e]

\* _update_cursor_position(row, col)
UpdateCursorPosition(t, row, col) ==
    [t EXCEPT !.cursor_row = Max(0, row),
              !.cursor_col = Max(0, Min(col, t.current_size.cols - 1))]

\* _move_cursor_relative(rows, cols)
MoveCursorRelative(t, rows, cols) ==
    UpdateCursorPosition(t, t.cursor_row + rows, t.cursor_col + cols)

\* for i in range(cols): setPosition(block().position() + i);
\*     movePosition(Right, KeepAnchor); insertText(items[i])
\* where items[i] is the text to insert, a sequence of at most one cell.
RECURSIVE OverwriteLoop(_, _, _)
OverwriteLoop(K, items, i) ==
    IF i > Len(items) THEN K
    ELSE OverwriteLoop(
             InsertCells(SelectRight(SetPosition(K, BlockStart(K.doc, K.p) + (i - 1))),
                         items[i]),
             items, i + 1)

\* The cols characters read from offset start on, one selection at a time:
\* setPosition(start + i); movePosition(Right, KeepAnchor); selectedText(),
\* charFormat().  Past the end of the document nothing is selected.
ReadCells(doc, start, cols) ==
    [i \in 1..cols |-> IF start + i <= Len(doc) THEN << doc[start + i] >> ELSE << >>]

\* Clear a line with spaces, one cell at a time, in the current format.
ClearLine(K, block, cols, fmt) ==
    OverwriteLoop(Cur(K.doc, K.tc, MoveNextBlock(K.doc, 0, block)),
                  [i \in 1..cols |-> << Cell(SP, fmt) >>], 1)

\* One pass of a region scroll: line `to' is overwritten with the cells of
\* line `from'.
CopyLine(K, from, to, cols) ==
    OverwriteLoop(Cur(K.doc, K.tc, MoveNextBlock(K.doc, 0, to)),
                  ReadCells(K.doc, MoveNextBlock(K.doc, 0, from), cols), 1)

\* for block_num in range(top_block, bottom_block): copy line block_num + 1
\* onto line block_num.
RECURSIVE ScrollUpLoop(_, _, _, _)
ScrollUpLoop(K, block_num, bottom_block, cols) ==
    IF block_num >= bottom_block THEN K
    ELSE ScrollUpLoop(CopyLine(K, block_num + 1, block_num, cols),
                      block_num + 1, bottom_block, cols)

\* for block_num in range(bottom_block, top_block, -1): copy line
\* block_num - 1 onto line block_num.
RECURSIVE ScrollDownLoop(_, _, _, _)
ScrollDownLoop(K, block_num, top_block, cols) ==
    IF block_num <= top_block THEN K
    ELSE ScrollDownLoop(CopyLine(K, block_num - 1, block_num, cols),
                        block_num - 1, top_block, cols)

\* _scroll_region_up(top, bottom)
ScrollRegionUp(t, top, bottom) ==
    LET row == IF top <= t.cursor_row /\ t.cursor_row <= bottom /\ t.cursor_row # bottom
               THEN t.cursor_row - 1 ELSE t.cursor_row
        fvb == FirstVisible(t)
        cols == t.current_size.cols
        K1 == ScrollUpLoop(Work(t, t.tc), fvb + top, fvb + bottom, cols)
        K2 == ClearLine(K1, fvb + bottom, cols, t.current_text_format)
    IN  [Store(t, K2) EXCEPT !.cursor_row = row]

\* _scroll_region_down(top, bottom)
ScrollRegionDown(t, top, bottom) ==
    LET row == IF top <= t.cursor_row /\ t.cursor_row <= bottom /\ t.cursor_row # top
               THEN t.cursor_row + 1 ELSE t.cursor_row
        fvb == FirstVisible(t)
        cols == t.current_size.cols
        K1 == ScrollDownLoop(Work(t, t.tc), fvb + bottom, fvb + top, cols)
        K2 == ClearLine(K1, fvb + top, cols, t.current_text_format)
    IN  [Store(t, K2) EXCEPT !.cursor_row = row]

\* _write_char(text)
WriteChar(t, text) ==
    IF text = CR THEN UpdateCursorPosition(t, t.cursor_row, 0)
    ELSE IF text = NL THEN
        IF t.scroll_region # None /\ t.cursor_row = t.scroll_region[2]
        THEN ScrollRegionUp(t, t.scroll_region[1], t.scroll_region[2])
        ELSE UpdateCursorPosition(t, t.cursor_row + 1, t.cursor_col)
    ELSE IF text = BS THEN UpdateCursorPosition(t, t.cursor_row, t.cursor_col - 1)
    ELSE IF text = TAB THEN
        LET new_col == t.cursor_col + (8 - (t.cursor_col % 8))
        IN  IF new_col < t.current_size.cols
            THEN UpdateCursorPosition(t, t.cursor_row, new_col) ELSE t
    ELSE
        LET at == Locate(t.doc, FirstVisible(t) + t.cursor_row, t.cursor_col)
            K  == InsertCells(SelectRight(Work(t, at)),
                              << Cell(text, t.current_text_format) >>)
            t1 == Store(t, K)
        IN  IF t.cursor_col >= t.current_size.cols - 1
            THEN UpdateCursorPosition(t1, t.cursor_row + 1, 0)
            ELSE UpdateCursorPosition(t1, t.cursor_row, t.cursor_col + 1)

---------------------------------------------------------------------------
(* Parameter parsing.                                                      *)

DigitValue(c) ==
    CASE c = "0" -> 0 [] c = "1" -> 1 [] c = "2" -> 2 [] c = "3" -> 3 [] c = "4" -> 4
      [] c = "5" -> 5 [] c = "6" -> 6 [] c = "7" -> 7 [] c = "8" -> 8 [] c = "9" -> 9

DigitChar(d) == << "0", "1", "2", "3", "4", "5", "6", "7", "8", "9" >>[d + 1]

AllDigits(s) == \A i \in 1..Len(s) : s[i] \in Digits

RECURSIVE DecimalValue(_)
DecimalValue(s) ==
    IF Len(s) = 0 THEN 0
    ELSE 10 * DecimalValue(SubSeq(s, 1, Len(s) - 1)) + DigitValue(s[Len(s)])

\* int(s) succeeds on an optionally signed run of decimal digits (of the
\* characters the model feeds) and raises ValueError on anything else.
IsInt(s) ==
    IF Len(s) > 0 /\ s[1] \in {"+", "-"}
    THEN Len(s) > 1 /\ AllDigits(Tail(s))
    ELSE Len(s) > 0 /\ AllDigits(s)

IntOf(s) ==
    IF s[1] = "-" THEN 0 - DecimalValue(Tail(s))
    ELSE IF s[1] = "+" THEN DecimalValue(Tail(s))
    ELSE DecimalValue(s)

\* str(n) for an integer n.
RECURSIVE NatToStr(_)
NatToStr(n) ==
    IF n < 10 THEN << DigitChar(n) >> ELSE Append(NatToStr(n \div 10), DigitChar(n % 10))

IntToStr(n) == IF n < 0 THEN << "-" >> \o NatToStr(0 - n) ELSE NatToStr(n)

\* s.split(sep): the list of the parts between separators.
RECURSIVE Split(_, _)
Split(s, sep) ==
    IF \A i \in 1..Len(s) : s[i] # sep THEN << s >>
    ELSE LET k == SetMin({i \in 1..Len(s) : s[i] = sep})
         IN  << Slice(s, 1, k - 1) >> \o Split(Slice(s, k + 1, Len(s)), sep)

\* s.split(sep, 1)
SplitOnce(s, sep) ==
    IF \A i \in 1..Len(s) : s[i] # sep THEN << s >>
    ELSE LET k == SetMin({i \in 1..Len(s) : s[i] = sep})
         IN  << Slice(s, 1, k - 1), Slice(s, k + 1, Len(s)) >>

StartsWith(s, pre) == Len(s) >= Len(pre) /\ SubSeq(s, 1, Len(pre)) = pre
EndsWith(s, suf) == Len(s) >= Len(suf) /\ SubSeq(s, Len(s) - Len(suf) + 1, Len(s)) = suf

---------------------------------------------------------------------------
(* Command handlers.                                                       *)

\* _handle_cursor_sequence(sequence): the sequence is ESC [ params letter
\* with the letter in ABCD; the pattern \x1b\[(\d*)([ABCD]) matches iff the
\* parameters are all digits.
HandleCursorSequence(t, sequence) ==
    LET digits == Slice(sequence, 3, Len(sequence) - 1)
        direction == sequence[Len(sequence)]
        count == IF Len(digits) > 0 THEN DecimalValue(digits) ELSE 1
    IN  IF ~AllDigits(digits) THEN t
        ELSE IF direction = "A" THEN MoveCursorRelative(t, 0 - count, 0)
        ELSE IF direction = "B" THEN MoveCursorRelative(t, count, 0)
        ELSE IF direction = "C" THEN MoveCursorRelative(t, 0, count)
        ELSE IF direction = "D" THEN MoveCursorRelative(t, 0, 0 - count)
        ELSE t

\* _handle_cursor_position(params); ValueError is caught and logged.
HandleCursorPosition(t, params) ==
    IF Len(params) = 0 THEN UpdateCursorPosition(t, 0, 0)
    ELSE LET parts == Split(params, ";")
         IN  IF ~IsInt(parts[1]) THEN t
             ELSE IF Len(parts) > 1 /\ ~IsInt(parts[2]) THEN t
             ELSE UpdateCursorPosition(t, IntOf(parts[1]) - 1,
                                       IF Len(parts) > 1 THEN IntOf(parts[2]) - 1 ELSE 0)

\* The end of _handle_clear_screen and _handle_erase_in_line:
\* cursor.setPosition(saved_position); self.setTextCursor(cursor).
RestoreTextCursor(t, K, saved_position) ==
    SetTextCursor(Store(t, K), SetPosition(K, saved_position).p)

\* _handle_clear_screen(params).  QPlainTextEdit has no lastVisibleBlock(),
\* so mode 3 on the main screen raises AttributeError.
HandleClearScreen(t, params) ==
    LET param == IF Len(params) > 0 THEN params ELSE << "0" >>
        fmt == t.current_text_format
        rows == t.current_size.rows
        cols == t.current_size.cols
        K0 == Work(t, t.tc)
        col == ColumnNumber(t.doc, t.tc)
    IN  IF param = << "0" >> THEN
            LET K1 == RemoveSelected([K0 EXCEPT !.p = BlockEnd(K0.doc, K0.p)])
                K2 == InsertCells(K1, Cells(Repeat(SP, cols - col), fmt))
                K3 == RemoveSelected([K2 EXCEPT !.p = Len(K2.doc)])
                K4 == SetPosition(K3, K2.p)
                total_blocks == rows - (BlockNumber(K4.doc, K4.p) - FirstVisible(Store(t, K4)))
                line == << NL >> \o Repeat(SP, cols)
                fill == [i \in 1..(Max(total_blocks - 1, 0) * Len(line)) |->
                            line[((i - 1) % Len(line)) + 1]]
                K5 == InsertCells(K4, Cells(fill, fmt))
            IN  RestoreTextCursor(t, K5, t.tc)
        ELSE IF param = << "1" >> THEN
            LET K1 == RemoveSelected([K0 EXCEPT !.p = BlockStart(K0.doc, K0.p)])
                K2 == InsertCells(K1, Cells(Repeat(SP, col), fmt))
                K3 == RemoveSelected([K2 EXCEPT !.p = 0])
                block_num == BlockNumber(K3.doc, K3.p)
                line == Repeat(SP, cols) \o << NL >>
                fill == [i \in 1..(block_num * Len(line)) |-> line[((i - 1) % Len(line)) + 1]]
                K4 == InsertCells(K3, Cells(fill, fmt))
            IN  RestoreTextCursor(t, K4, t.tc)
        ELSE IF param = << "2" >> THEN
            LET K1 == RemoveSelected([K0 EXCEPT !.a = 0, !.p = Len(K0.doc)])
                line == Repeat(SP, cols)
                sep == line \o << NL >>
                fill == [i \in 1..(rows * Len(sep) - 1) |-> sep[((i - 1) % Len(sep)) + 1]]
                K2 == InsertCells(K1, Cells(fill, fmt))
            IN  RestoreTextCursor(t, K2, t.tc)
        ELSE IF param = << "3" >> /\ ~t.using_alternate_screen THEN
            Raise(RestoreTextCursor(t, K0, t.tc), "AttributeError")
        ELSE RestoreTextCursor(t, K0, t.tc)

\* _handle_erase_in_line(params)
HandleEraseInLine(t, params) ==
    LET param == IF Len(params) > 0 THEN params ELSE << "0" >>
        fmt == t.current_text_format
        cols == t.current_size.cols
        K0 == Work(t, t.tc)
        col == ColumnNumber(t.doc, t.tc)
    IN  IF param = << "0" >> THEN
            LET K1 == RemoveSelected([K0 EXCEPT !.p = BlockEnd(K0.doc, K0.p)])
            IN  RestoreTextCursor(t, InsertCells(K1, Cells(Repeat(SP, cols - col), fmt)), t.tc)
        ELSE IF param = << "1" >> THEN
            LET K1 == RemoveSelected([K0 EXCEPT !.p = BlockStart(K0.doc, K0.p)])
            IN  RestoreTextCursor(t, InsertCells(K1, Cells(Repeat(SP, col), fmt)), t.tc)
        ELSE IF param = << "2" >> THEN
            LET s == BlockStart(K0.doc, K0.p)
                K1 == RemoveSelected([K0 EXCEPT !.a = s, !.p = BlockEnd(K0.doc, s)])
            IN  RestoreTextCursor(t, InsertCells(K1, Cells(Repeat(SP, cols), fmt)), t.tc)
        ELSE RestoreTextCursor(t, K0, t.tc)

\* for char in text: movePosition(Right, KeepAnchor); insertText(char, fmt)
RECURSIVE TypeOver(_, _, _, _)
TypeOver(K, text, fmt, i) ==
    IF i > Len(text) THEN K
    ELSE TypeOver(InsertCells(SelectRight(K), << Cell(text[i], fmt) >>), text, fmt, i + 1)

\* for _ in range(count): scroll(current_row, rows - 1)
RECURSIVE ScrollTimes(_, _, _, _)
ScrollTimes(t, up, current_row, count) ==
    IF count <= 0 THEN t
    ELSE ScrollTimes(IF up THEN ScrollRegionUp(t, current_row, t.current_size.rows - 1)
                     ELSE ScrollRegionDown(t, current_row, t.current_size.rows - 1),
                     up, current_row, count - 1)

\* _handle_insert_delete(command, params): int(params) is outside any try.
HandleInsertDelete(t, command, params) ==
    IF Len(params) > 0 /\ ~IsInt(params) THEN Raise(t, "ValueError")
    ELSE
    LET count == IF Len(params) > 0 THEN IntOf(params) ELSE 1
        cols == t.current_size.cols
        fmt == t.current_text_format
        K0 == Work(t, Locate(t.doc, FirstVisible(t) + t.cursor_row, t.cursor_col))
    IN  IF command = "@" THEN
            LET remaining_space == cols - t.cursor_col
                insert_count == Min(count, remaining_space)
                K1 == [K0 EXCEPT !.p = MoveRight(K0.doc, K0.p, remaining_space)]
                existing_text == [i \in 1..(K1.p - K1.a) |-> K1.doc[K1.a + i].c]
                K2 == SetPosition(K1, BlockStart(K1.doc, K1.p) + t.cursor_col)
                K3 == TypeOver(K2, Repeat(SP, insert_count), fmt, 1)
                keep == IF remaining_space - insert_count >= 0
                        THEN Min(remaining_space - insert_count, Len(existing_text))
                        ELSE Max(Len(existing_text) + (remaining_space - insert_count), 0)
            IN  Store(t, TypeOver(K3, Slice(existing_text, 1, keep), fmt, 1))
        ELSE IF command = "P" THEN
            Store(t, TypeOver(K0, Repeat(SP, Min(count, cols - t.cursor_col)), fmt, 1))
        ELSE IF command = "L" THEN ScrollTimes(t, FALSE, t.cursor_row, count)
        ELSE IF command = "M" THEN ScrollTimes(t, TRUE, t.cursor_row, count)
        ELSE t

StandardColors ==
    << "TERM_BLACK", "TERM_RED", "TERM_GREEN", "TERM_YELLOW",
       "TERM_BLUE", "TERM_MAGENTA", "TERM_CYAN", "TERM_WHITE" >>

BrightColors ==
    << "TERM_BRIGHT_BLACK", "TERM_BRIGHT_RED", "TERM_BRIGHT_GREEN", "TERM_BRIGHT_YELLOW",
       "TERM_BRIGHT_BLUE", "TERM_BRIGHT_MAGENTA", "TERM_BRIGHT_CYAN", "TERM_BRIGHT_WHITE" >>

\* One SGR code applied to a format.
ApplySgrCode(t, f, code) ==
    IF code = 0 THEN t.default_text_format
    ELSE IF code = 1 THEN [f EXCEPT !.weight = "Bold", !.custom = @ \cup {"CUSTOM_WEIGHT"}]
    ELSE IF code = 2 THEN [f EXCEPT !.weight = "Light", !.custom = @ \cup {"CUSTOM_WEIGHT"}]
    ELSE IF code = 3 THEN [f EXCEPT !.italic = TRUE, !.custom = @ \cup {"CUSTOM_ITALIC"}]
    ELSE IF code = 4 THEN [f EXCEPT !.underline = TRUE, !.custom = @ \cup {"CUSTOM_UNDERLINE"}]
    ELSE IF code = 22 THEN [f EXCEPT !.weight = "Normal", !.custom = @ \ {"CUSTOM_WEIGHT"}]
    ELSE IF code = 23 THEN [f EXCEPT !.italic = FALSE, !.custom = @ \ {"CUSTOM_ITALIC"}]
    ELSE IF code = 24 THEN [f EXCEPT !.underline = FALSE, !.custom = @ \ {"CUSTOM_UNDERLINE"}]
    ELSE IF code = 39 THEN [f EXCEPT !.fg = GetColor(t.color_mode, "TEXT_PRIMARY"), !.custom = @ \ {"CUSTOM_FOREGROUND"}]
    ELSE IF code = 49 THEN [f EXCEPT !.bg = GetColor(t.color_mode, "TAB_BACKGROUND_ACTIVE"), !.custom = @ \ {"CUSTOM_BACKGROUND"}]
    ELSE IF 30 <= code /\ code <= 37
         THEN [f EXCEPT !.fg = GetColor(t.color_mode, StandardColors[code - 29]), !.custom = @ \cup {"CUSTOM_FOREGROUND"}]
    ELSE IF 90 <= code /\ code <= 97
         THEN [f EXCEPT !.fg = GetColor(t.color_mode, BrightColors[code - 89]), !.custom = @ \cup {"CUSTOM_FOREGROUND"}]
    ELSE IF 40 <= code /\ code <= 47
         THEN [f EXCEPT !.bg = GetColor(t.color_mode, StandardColors[code - 39]), !.custom = @ \cup {"CUSTOM_BACKGROUND"}]
    ELSE IF 100 <= code /\ code <= 107
         THEN [f EXCEPT !.bg = GetColor(t.color_mode, BrightColors[code - 99]), !.custom = @ \cup {"CUSTOM_BACKGROUND"}]
    ELSE f

RECURSIVE SgrLoop(_, _, _, _)
SgrLoop(t, f, parts, i) ==
    IF i > Len(parts) THEN f
    ELSE SgrLoop(t, IF IsInt(parts[i]) THEN ApplySgrCode(t, f, IntOf(parts[i])) ELSE f,
                 parts, i + 1)

\* _handle_sgr_sequence without the default for an empty parameter string.
HandleSgrSequenceNoDefault(t, params) ==
    [t EXCEPT !.current_text_format = SgrLoop(t, @, Split(params, ";"), 1)]

\* _handle_sgr_sequence(params)
HandleSgrSequence(t, params) ==
    [t EXCEPT !.current_text_format =
        SgrLoop(t, @, Split(IF Len(params) = 0 THEN << "0" >> ELSE params, ";"), 1)]

\* rows lines of cols spaces, joined by separators / each followed by one.
BlankLines(rows, cols, trailing) ==
    LET sep == Repeat(SP, cols) \o << NL >>
    IN  [i \in 1..(IF rows <= 0 THEN 0 ELSE rows * Len(sep) - (IF trailing THEN 0 ELSE 1)) |->
            sep[((i - 1) % Len(sep)) + 1]]

\* clear()
Clear(t) ==
    LET K1 == RemoveSelected([Work(t, t.tc) EXCEPT !.a = 0, !.p = Len(t.doc)])
        K2 == InsertCells(K1, Cells(BlankLines(t.current_size.rows, t.current_size.cols, FALSE),
                                    t.current_text_format))
    IN  SetTextCursor(Store(t, K2), 0)

\* _handle_screen_buffer_switch without the check for the buffer that is
\* already active.
HandleScreenBufferSwitchUnguarded(t, enable_alternate) ==
    IF enable_alternate THEN
        LET t1 == Clear([t EXCEPT
                      !.main_screen_buffer = Text(t.doc),
                      !.saved_cursor_position =
                          << BlockNumber(t.doc, t.tc) - FirstVisible(t),
                             ColumnNumber(t.doc, t.tc) >>])
            K  == InsertCells(Work(t1, t1.tc),
                              Cells(BlankLines(t.current_size.rows, t.current_size.cols, TRUE),
                                    t.current_text_format))
        IN  [SetTextCursor(Store(t1, K), 0) EXCEPT !.using_alternate_screen = TRUE]
    ELSE
        LET t1 == Clear([t EXCEPT !.alternate_screen_buffer = Text(t.doc)])
            K0 == Work(t1, t1.tc)
            K  == InsertCells(K0, Cells(t.main_screen_buffer, CharFormat(K0)))
            t2 == Store(t1, K)
        IN  IF t.saved_cursor_position # None
            THEN Raise(t2, "AttributeError")
            ELSE [t2 EXCEPT !.using_alternate_screen = FALSE]

\* _handle_screen_buffer_switch(enable_alternate).  The widget defines no
\* _move_cursor_to, so leaving the alternate screen with a saved cursor
\* raises AttributeError before _using_alternate_screen is cleared.
HandleScreenBufferSwitch(t, enable_alternate) ==
    IF enable_alternate = t.using_alternate_screen THEN t
    ELSE IF enable_alternate THEN
        LET t1 == Clear([t EXCEPT
                      !.main_screen_buffer = Text(t.doc),
                      !.saved_cursor_position =
                          << BlockNumber(t.doc, t.tc) - FirstVisible(t),
                             ColumnNumber(t.doc, t.tc) >>])
            K  == InsertCells(Work(t1, t1.tc),
                              Cells(BlankLines(t.current_size.rows, t.current_size.cols, TRUE),
                                    t.current_text_format))
        IN  [SetTextCursor(Store(t1, K), 0) EXCEPT !.using_alternate_screen = TRUE]
    ELSE
        LET t1 == Clear([t EXCEPT !.alternate_screen_buffer = Text(t.doc)])
            K0 == Work(t1, t1.tc)
            K  == InsertCells(K0, Cells(t.main_screen_buffer, CharFormat(K0)))
            t2 == Store(t1, K)
        IN  IF t.saved_cursor_position # None
            THEN Raise(t2, "AttributeError")
            ELSE [t2 EXCEPT !.using_alternate_screen = FALSE]

\* _handle_device_status(params)
HandleDeviceStatus(t, params) ==
    IF params = << "5" >> THEN Emit(t, << ESC, "[", "0", "n" >>)
    ELSE IF params = << "6" >> THEN
        Emit(t, << ESC, "[" >>
                \o IntToStr(BlockNumber(t.doc, t.tc) - FirstVisible(t) + 1)
                \o << ";" >> \o IntToStr(ColumnNumber(t.doc, t.tc) + 1) \o << "R" >>)
    ELSE t

\* _handle_device_attributes(params)
HandleDeviceAttributes(t, params) ==
    IF Len(params) = 0 \/ params = << "0" >>
    THEN Emit(t, << ESC, "[", "?", "1", ";", "2", "c" >>)
    ELSE IF params = << ">" >>
    THEN Emit(t, << ESC, "[", ">", "1", ";", "1", "0", ";", "0", "c" >>)
    ELSE t

\* _handle_scroll_region(params): unpacking anything but two integers raises
\* ValueError, which clears the region.
HandleScrollRegion(t, params) ==
    IF Len(params) = 0 THEN [t EXCEPT !.scroll_region = None]
    ELSE LET parts == Split(params, ";")
         IN  IF Len(parts) = 2 /\ IsInt(parts[1]) /\ IsInt(parts[2])
             THEN [t EXCEPT !.scroll_region = << IntOf(parts[1]) - 1, IntOf(parts[2]) - 1 >>]
             ELSE [t EXCEPT !.scroll_region = None]

\* _handle_mouse_tracking_mode(mode, set_mode)
HandleMouseTrackingMode(t, mode, set_mode) ==
    IF mode = << "1", "0", "0", "1", "s" >>
    THEN [t EXCEPT !.saved_mouse_tracking = t.mouse_tracking,
                   !.saved_mouse_tracking_sgr = t.mouse_tracking_sgr]
    ELSE IF mode = << "1", "0", "0", "1", "r" >>
    THEN [t EXCEPT !.mouse_tracking = t.saved_mouse_tracking,
                   !.mouse_tracking_sgr = t.saved_mouse_tracking_sgr]
    ELSE IF mode = << "1", "0", "0", "1" >> THEN [t EXCEPT !.mouse_tracking = set_mode]
    ELSE IF mode = << "1", "0", "0", "2" >> THEN [t EXCEPT !.mouse_tracking = set_mode]
    ELSE IF mode = << "1", "0", "0", "6" >> THEN [t EXCEPT !.mouse_tracking_sgr = set_mode]
    ELSE t

\* _handle_private_mode(mode, set_mode)
HandlePrivateMode(t, mode, set_mode) ==
    IF mode = << "1" >> THEN [t EXCEPT !.application_cursor_keys = set_mode]
    ELSE IF mode = << "7" >> THEN [t EXCEPT !.line_wrap = set_mode]
    ELSE IF mode = << "1", "2" >> THEN t
    ELSE IF mode = << "2", "5" >> THEN [t EXCEPT !.cursor_width = IF set_mode THEN 8 ELSE 0]
    ELSE IF mode = << "1", "0", "4", "9" >> THEN HandleScreenBufferSwitch(t, set_mode)
    ELSE IF mode = << "2", "0", "0", "4" >> THEN [t EXCEPT !.bracketed_paste_mode = set_mode]
    ELSE IF mode \in {<< "1", "0", "0", "1", "s" >>, << "1", "0", "0", "1", "r" >>,
                      << "1", "0", "0", "1" >>, << "1", "0", "0", "2" >>,
                      << "1", "0", "0", "6" >>}
    THEN HandleMouseTrackingMode(t, mode, set_mode)
    ELSE t

\* _handle_ansi_mode(mode, set_mode)
HandleAnsiMode(t, mode, set_mode) ==
    IF mode = << "4" >> THEN [t EXCEPT !.overwrite_mode = ~set_mode] ELSE t

\* _handle_mode_setting that takes every mode for a private one, with or
\* without the question mark.
HandleModeSettingEveryModePrivate(t, command, params) ==
    IF Len(params) > 0 /\ params[1] = "?"
    THEN HandlePrivateMode(t, Tail(params), command = "h")
    ELSE HandlePrivateMode(t, params, command = "h")

\* _handle_mode_setting(command, params)
HandleModeSetting(t, command, params) ==
    IF Len(params) > 0 /\ params[1] = "?"
    THEN HandlePrivateMode(t, Tail(params), command = "h")
    ELSE HandleAnsiMode(t, params, command = "h")

\* _handle_simple_sequence(char): the state after it and whether it handled
\* the character.
HandleSimpleSequence(t, char) ==
    IF char = "7" THEN
        [handled |-> TRUE,
         t |-> [t EXCEPT !.saved_cursor_position = << t.cursor_row, t.cursor_col >>]]
    ELSE IF char = "8" THEN
        [handled |-> TRUE,
         t |-> IF t.saved_cursor_position # None
               THEN UpdateCursorPosition(t, t.saved_cursor_position[1],
                                         t.saved_cursor_position[2])
               ELSE t]
    ELSE IF char = "D" THEN
        LET K0 == Work(t, t.tc)
            K1 == IF BlockNumber(t.doc, t.tc) = BlockCount(t.doc) - 1
                  THEN InsertCells(K0, Cells(<< NL >> \o Repeat(SP, t.current_size.cols),
                                             CharFormat(K0)))
                  ELSE K0
        IN  [handled |-> TRUE, t |-> SetTextCursor(Store(t, K1), MoveDown(K1.doc, K1.p))]
    ELSE IF char = "M" THEN
        LET K0 == Work(t, t.tc)
            K1 == IF BlockNumber(t.doc, t.tc) = 0
                  THEN InsertCells(Cur(K0.doc, K0.tc, 0),
                                   Cells(<< NL >> \o Repeat(SP, t.current_size.cols),
                                         CharFormat(Cur(K0.doc, K0.tc, 0))))
                  ELSE K0
        IN  [handled |-> TRUE, t |-> SetTextCursor(Store(t, K1), MoveUp(K1.doc, K1.p))]
    ELSE IF char = "E" THEN
        [handled |-> TRUE,
         t |-> SetTextCursor(t, BlockStart(t.doc, MoveNextBlock(t.doc, t.tc, 1)))]
    ELSE IF char = "c" THEN
        [handled |-> TRUE,
         t |-> [Clear(t) EXCEPT !.current_text_format = t.default_text_format,
                                !.scroll_region = None,
                                !.saved_cursor_position = None,
                                !.application_cursor_keys = FALSE,
                                !.application_keypad_mode = FALSE,
                                !.bracketed_paste_mode = FALSE,
                                !.overwrite_mode = TRUE]]
    ELSE [handled |-> FALSE, t |-> t]

\* _handle_osc_sequence(sequence): the state after it and whether it handled
\* the sequence.  A command number that is no integer is logged, not handled.
HandleOscSequence(t, sequence) ==
    LET parts == SplitOnce(Slice(sequence, 3, Len(sequence)), ";")
        param == IF Len(parts) > 1 THEN Slice(parts[2], 1, Len(parts[2]) - 1) ELSE << >>
    IN  IF ~IsInt(parts[1]) THEN [handled |-> FALSE, t |-> t]
        ELSE IF IntOf(parts[1]) = 0 THEN [handled |-> TRUE, t |-> t]
        ELSE IF IntOf(parts[1]) = 7 THEN
            [handled |-> TRUE,
             t |-> IF param = << "f" >>
                   THEN IF t.current_directory # None
                        THEN Emit(t, << ESC, "]", "7", ";" >> \o t.current_directory
                                     \o << ESC, "\\" >>)
                        ELSE t
                   ELSE [t EXCEPT !.current_directory = param]]
        ELSE IF IntOf(parts[1]) \in {10, 11} THEN [handled |-> TRUE, t |-> t]
        ELSE [handled |-> FALSE, t |-> t]

\* The CSI branch of _process_escape_sequence: the state after the handler
\* the final character selects.  CSI t calls _handle_window_operation, which
\* the widget does not define.
ProcessCsi(t, sequence) ==
    LET command == sequence[Len(sequence)]
        params == Slice(sequence, 3, Len(sequence) - 1)
    IN  IF command \in {"A", "B", "C", "D"} THEN HandleCursorSequence(t, sequence)
        ELSE IF command \in {"H", "f"} THEN HandleCursorPosition(t, params)
        ELSE IF command = "J" THEN HandleClearScreen(t, params)
        ELSE IF command = "K" THEN HandleEraseInLine(t, params)
        ELSE IF command \in {"@", "P", "M", "L"} THEN HandleInsertDelete(t, command, params)
        ELSE IF command = "m" THEN HandleSgrSequence(t, params)
        ELSE IF command = "n" THEN HandleDeviceStatus(t, params)
        ELSE IF command = "c" THEN HandleDeviceAttributes(t, params)
        ELSE IF command = "g" THEN t
        ELSE IF command = "r" THEN HandleScrollRegion(t, params)
        ELSE IF command \in {"h", "l"} THEN HandleModeSetting(t, command, params)
        ELSE IF command = "t" THEN Raise(t, "AttributeError")
        ELSE t

\* _process_escape_sequence(sequence)
ProcessEscapeSequence(t, sequence) ==
    IF StartsWith(sequence, << ESC, "]" >>) /\ HandleOscSequence(t, sequence).handled
    THEN HandleOscSequence(t, sequence).t
    ELSE IF StartsWith(sequence, << ESC, "[" >>) THEN ProcessCsi(t, sequence)
    ELSE IF sequence = << ESC, "=" >> THEN [t EXCEPT !.application_keypad_mode = TRUE]
    ELSE IF sequence = << ESC, ">" >> THEN [t EXCEPT !.application_keypad_mode = FALSE]
    ELSE IF Len(sequence) = 2 THEN HandleSimpleSequence(t, sequence[2]).t
    ELSE t

\* The characters of the string '=>\7\\8cDEHM': \7 is the octal escape of
\* BEL, not the digit 7.
SimpleFinals == {"=", ">", BEL, "\\", "8", "c", "D", "E", "H", "M"}

\* _is_escape_sequence_complete(sequence)
IsEscapeSequenceComplete(sequence) ==
    IF Len(sequence) < 2 THEN FALSE
    ELSE IF StartsWith(sequence, << ESC, "]" >>)
    THEN EndsWith(sequence, << BEL >>) \/ EndsWith(sequence, << ESC, "\\" >>)
    ELSE IF StartsWith(sequence, << ESC, "[" >>)
    THEN sequence[Len(sequence)] \in Alpha \cup {"@", GRAVE, "~"}
    ELSE IF StartsWith(sequence, << ESC, "P" >>) THEN EndsWith(sequence, << ESC, "\\" >>)
    ELSE Len(sequence) = 2 /\ sequence[2] \in SimpleFinals

\* The safety limit on a pending escape sequence.
MaxEscapeLen == 128

\* put_data's loop with an overflow branch that empties the accumulator and
\* forgets to leave the sequence.
PutCharOverflowStaysInSequence(t, char) ==
    IF t.in_escape_seq THEN
        LET buffer == Append(t.escape_seq_buffer, char)
            t1 == [t EXCEPT !.escape_seq_buffer = buffer]
        IN  IF IsEscapeSequenceComplete(buffer) THEN
                LET t2 == ProcessEscapeSequence(t1, buffer)
                IN  IF t2.exc # "" THEN t2
                    ELSE [t2 EXCEPT !.escape_seq_buffer = << >>, !.in_escape_seq = FALSE]
            ELSE IF Len(buffer) > MaxEscapeLen
            THEN [t1 EXCEPT !.escape_seq_buffer = << >>]
            ELSE t1
    ELSE IF char = ESC
    THEN [t EXCEPT !.in_escape_seq = TRUE, !.escape_seq_buffer = << char >>]
    ELSE WriteChar(t, char)

\* One turn of put_data's loop, on the character char.  A handler's
\* exception leaves the loop before the accumulator is reset.
PutChar(t, char) ==
    IF t.in_escape_seq THEN
        LET buffer == Append(t.escape_seq_buffer, char)
            t1 == [t EXCEPT !.escape_seq_buffer = buffer]
        IN  IF IsEscapeSequenceComplete(buffer) THEN
                LET t2 == ProcessEscapeSequence(t1, buffer)
                IN  IF t2.exc # "" THEN t2
                    ELSE [t2 EXCEPT !.escape_seq_buffer = << >>, !.in_escape_seq = FALSE]
            ELSE IF Len(buffer) > MaxEscapeLen
            THEN [t1 EXCEPT !.escape_seq_buffer = << >>, !.in_escape_seq = FALSE]
            ELSE t1
    ELSE IF char = ESC
    THEN [t EXCEPT !.in_escape_seq = TRUE, !.escape_seq_buffer = << char >>]
    ELSE WriteChar(t, char)

RECURSIVE PutChars(_, _, _)
PutChars(t, text, i) ==
    IF i > Len(text) \/ t.exc # "" THEN t ELSE PutChars(PutChar(t, text[i]), text, i + 1)

\* put_data(data), data already decoded to text.  out and exc are what this
\* call emits and raises.
PutData(t, text) ==
    LET t1 == PutChars([t EXCEPT !.out = << >>, !.exc = ""], text, 1)
    IN  IF t1.exc # "" THEN t1 ELSE EnsureCursorVisible(t1)

\* while not cursor.atEnd(): pad or truncate the line the cursor is on.
RECURSIVE ReflowLoop(_, _, _)
ReflowLoop(K, cols, fmt) ==
    IF K.p = Len(K.doc) THEN K
    ELSE LET e == BlockEnd(K.doc, K.p)
             line == [i \in 1..(e - K.p) |-> K.doc[K.p + i].c]
             K1 == InsertCells([K EXCEPT !.a = K.p, !.p = e],
                               Cells(IF Len(line) < cols
                                     THEN line \o Repeat(SP, cols - Len(line))
                                     ELSE Slice(line, 1, cols), fmt))
         IN  IF K1.p = Len(K1.doc) THEN K1
             ELSE ReflowLoop(Cur(K1.doc, K1.tc, K1.p + 1), cols, fmt)

\* _reflow_content(old_size, new_size), with _current_size already new.
ReflowContent(t, new_size) ==
    [Store(t, ReflowLoop(Work(t, 0), new_size.cols, t.current_text_format))
        EXCEPT !.cursor_col = Min(t.cursor_col, new_size.cols - 1),
               !.cursor_row = Min(t.cursor_row, new_size.rows - 1)]

\* resizeEvent(event), the viewport now holding new_size.
ResizeEvent(t, new_size) ==
    LET t0 == [t EXCEPT !.out = << >>, !.exc = ""]
    IN  IF t.current_size = new_size THEN t0
        ELSE ReflowContent([t0 EXCEPT !.current_size = new_size], new_size)

\* The loop of _handle_style_changed: from offset p to the end, each character
\* is selected in turn and takes the format charFormat() gives, with each
\* colour that is not explicit set to the mode's default.
RECURSIVE UpdateColors(_, _, _)
UpdateColors(doc, p, mode) ==
    IF p >= Len(doc) THEN doc
    ELSE LET f  == CharFormat(Cur(doc, 0, p + 1))
             f1 == IF "CUSTOM_FOREGROUND" \in f.custom THEN f
                   ELSE [f EXCEPT !.fg = GetColor(mode, "TEXT_PRIMARY")]
             f2 == IF "CUSTOM_BACKGROUND" \in f.custom THEN f1
                   ELSE [f1 EXCEPT !.bg = GetColor(mode, "TAB_BACKGROUND_ACTIVE")]
         IN  UpdateColors([doc EXCEPT ![p + 1].f = f2], p + 1, mode)

\* _handle_style_changed(), the style manager being in t.color_mode.
HandleStyleChanged(t) ==
    LET d == UpdateDefaultFormat(t.color_mode)
        c == t.current_text_format
        n == [fg        |-> IF "CUSTOM_FOREGROUND" \in c.custom THEN c.fg ELSE d.fg,
              bg        |-> IF "CUSTOM_BACKGROUND" \in c.custom THEN c.bg ELSE d.bg,
              weight    |-> IF "CUSTOM_WEIGHT" \in c.custom THEN c.weight ELSE d.weight,
              italic    |-> IF "CUSTOM_ITALIC" \in c.custom THEN c.italic ELSE d.italic,
              underline |-> IF "CUSTOM_UNDERLINE" \in c.custom THEN c.underline
                            ELSE d.underline,
              custom    |-> c.custom]
    IN  SetTextCursor([t EXCEPT !.default_text_format = d,
                                !.current_text_format = n,
                                !.doc = UpdateColors(t.doc, 0, t.color_mode),
                                !.out = << >>, !.exc = ""],
                      t.tc)

---------------------------------------------------------------------------
(* Key and paste events.  A key event is (key, modifiers, text): a Qt key   *)
(* name, a set of modifier names and the text the key produces.  What the  *)
(* widget emits is a sequence of characters.                               *)

\* The control characters 0x01..0x1A, and the others the widget emits.
ControlChars ==
    << "SOH", "STX", "ETX", "EOT", "ENQ", "ACK", BEL, BS, TAB, NL, "VT", "FF", CR,
       "SO", "SI", "DLE", "DC1", "DC2", "DC3", "DC4", "NAK", "SYN", "ETB", "CAN",
       "EM", "SUB" >>
NUL == "NUL"
DEL == "DEL"

\* Qt.Key_A .. Qt.Key_Z, in order.
LetterKeys ==
    << "Key_A", "Key_B", "Key_C", "Key_D", "Key_E", "Key_F", "Key_G", "Key_H", "Key_I",
       "Key_J", "Key_K", "Key_L", "Key_M", "Key_N", "Key_O", "Key_P", "Key_Q", "Key_R",
       "Key_S", "Key_T", "Key_U", "Key_V", "Key_W", "Key_X", "Key_Y", "Key_Z" >>

\* keypad_map: the final character of the ESC O sequence of a key.
KeypadMap ==
    [k \in {"Key_0", "Key_1", "Key_2", "Key_3", "Key_4", "Key_5", "Key_6", "Key_7",
            "Key_8", "Key_9", "Key_Minus", "Key_Plus", "Key_Period", "Key_Enter"} |->
        CASE k = "Key_0" -> "p" [] k = "Key_1" -> "q" [] k = "Key_2" -> "r"
          [] k = "Key_3" -> "s" [] k = "Key_4" -> "t" [] k = "Key_5" -> "u"
          [] k = "Key_6" -> "v" [] k = "Key_7" -> "w" [] k = "Key_8" -> "x"
          [] k = "Key_9" -> "y" [] k = "Key_Minus" -> "m" [] k = "Key_Plus" -> "l"
          [] k = "Key_Period" -> "n" [] k = "Key_Enter" -> "M"]

\* ctrl_map
CtrlMap ==
    [k \in {"Key_2", "Key_3", "Key_4", "Key_5", "Key_6", "Key_7", "Key_8"} |->
        CASE k = "Key_2" -> NUL [] k = "Key_3" -> ESC [] k = "Key_4" -> "FS"
          [] k = "Key_5" -> "GS" [] k = "Key_6" -> "RS" [] k = "Key_7" -> "US"
          [] k = "Key_8" -> DEL]

\* str.encode(): the UTF-8 bytes of a text.  The characters of the model are
\* ASCII but for E_ACUTE (U+00E9), which encodes as two bytes.
E_ACUTE == "E_ACUTE"
EncodeChar(char) == IF char = E_ACUTE THEN << "0xC3", "0xA9" >> ELSE << char >>
RECURSIVE Encode(_)
Encode(text) ==
    IF text = << >> THEN << >> ELSE EncodeChar(Head(text)) \o Encode(Tail(text))

\* keyPressEvent with the normal-mode branch alone: the arrow keys encode as
\* ESC [ whatever the application cursor keys flag.
CursorKeyBytesNormalOnly(application, key, modifiers, text) ==
    IF key = "Key_Up" THEN << ESC, "[", "A" >>
    ELSE IF key = "Key_Down" THEN << ESC, "[", "B" >>
    ELSE IF key = "Key_Right" THEN << ESC, "[", "C" >>
    ELSE IF key = "Key_Left" THEN << ESC, "[", "D" >>
    ELSE IF key \in {"Key_Return", "Key_Enter"} THEN << CR >>
    ELSE IF key = "Key_Backspace"
         THEN << IF "ControlModifier" \in modifiers THEN DEL ELSE BS >>
    ELSE IF key = "Key_Delete" THEN << ESC, "[", "3", "~" >>
    ELSE IF key = "Key_Tab" THEN << TAB >>
    ELSE Encode(text)

\* The two final branches of keyPressEvent: what a key emits with the
\* application cursor keys on or off; << >> when it emits nothing.
CursorKeyBytes(application, key, modifiers, text) ==
    IF key = "Key_Up" THEN << ESC, IF application THEN "O" ELSE "[", "A" >>
    ELSE IF key = "Key_Down" THEN << ESC, IF application THEN "O" ELSE "[", "B" >>
    ELSE IF key = "Key_Right" THEN << ESC, IF application THEN "O" ELSE "[", "C" >>
    ELSE IF key = "Key_Left" THEN << ESC, IF application THEN "O" ELSE "[", "D" >>
    ELSE IF key \in {"Key_Return", "Key_Enter"} THEN << CR >>
    ELSE IF key = "Key_Backspace"
         THEN << IF "ControlModifier" \in modifiers THEN DEL ELSE BS >>
    ELSE IF key = "Key_Delete" THEN << ESC, "[", "3", "~" >>
    ELSE IF ~application /\ key = "Key_Tab" THEN << TAB >>
    ELSE Encode(text)

\* keyPressEvent that also hands the event to QPlainTextEdit, which inserts
\* the key's text at the Qt cursor.
KeyPressEventWithLocalEcho(t, key, modifiers, text) ==
    LET s0 == [t EXCEPT !.out = << >>, !.exc = ""]
        K0 == Work(s0, s0.tc)
        t0 == IF text = << >> THEN s0
              ELSE Store(s0, InsertCells(K0, Cells(text, CharFormat(K0))))
    IN  IF t.application_keypad_mode /\ modifiers = {} /\ key \in DOMAIN KeypadMap
        THEN Emit(t0, << ESC, "O", KeypadMap[key] >>)
        ELSE IF "ControlModifier" \in modifiers
                /\ \E i \in 1..Len(LetterKeys) : LetterKeys[i] = key
        THEN Emit(t0, << ControlChars[CHOOSE i \in 1..Len(LetterKeys) : LetterKeys[i] = key] >>)
        ELSE IF "ControlModifier" \in modifiers /\ key \in DOMAIN CtrlMap
        THEN Emit(t0, << CtrlMap[key] >>)
        ELSE LET bytes == CursorKeyBytes(t.application_cursor_keys, key, modifiers, text)
             IN  IF bytes = << >> THEN t0 ELSE Emit(t0, bytes)

\* keyPressEvent(event)
KeyPressEvent(t, key, modifiers, text) ==
    LET t0 == [t EXCEPT !.out = << >>, !.exc = ""]
    IN  IF t.application_keypad_mode /\ modifiers = {} /\ key \in DOMAIN KeypadMap
        THEN Emit(t0, << ESC, "O", KeypadMap[key] >>)
        ELSE IF "ControlModifier" \in modifiers
                /\ \E i \in 1..Len(LetterKeys) : LetterKeys[i] = key
        THEN Emit(t0, << ControlChars[CHOOSE i \in 1..Len(LetterKeys) : LetterKeys[i] = key] >>)
        ELSE IF "ControlModifier" \in modifiers /\ key \in DOMAIN CtrlMap
        THEN Emit(t0, << CtrlMap[key] >>)
        ELSE LET bytes == CursorKeyBytes(t.application_cursor_keys, key, modifiers, text)
             IN  IF bytes = << >> THEN t0 ELSE Emit(t0, bytes)

\* insertFromMimeData without the bracketed-paste branch: the text alone.
InsertFromMimeDataUnbracketed(t, source) ==
    LET t0 == [t EXCEPT !.out = << >>, !.exc = ""]
    IN  IF ~source.hasText THEN t0
        ELSE Emit(t0, Encode(source.text))

\* insertFromMimeData(source), source being [hasText, text].
InsertFromMimeData(t, source) ==
    LET t0 == [t EXCEPT !.out = << >>, !.exc = ""]
    IN  IF ~source.hasText THEN t0
        ELSE IF t.bracketed_paste_mode
        THEN Emit(Emit(Emit(t0, << ESC, "[", "2", "0", "0", "~" >>), Encode(source.text)),
                  << ESC, "[", "2", "0", "1", "~" >>)
        ELSE Emit(t0, Encode(source.text))

---------------------------------------------------------------------------
(* The state machine.                                                      *)

VARIABLES
    doc,                      \* the text document: the grid and any scrollback
    tc,                       \* offset of the widget's text cursor
    fv,                       \* number of the first visible block
    cursor_row,               \* _cursor_row
    cursor_col,               \* _cursor_col
    saved_cursor_position,    \* _saved_cursor_position: None or << row, col >>
    current_text_format,      \* _current_text_format
    default_text_format,      \* _default_text_format
    color_mode,               \* the colour mode of _style_manager
    escape_seq_buffer,        \* _escape_seq_buffer
    in_escape_seq,            \* _in_escape_seq
    alternate_screen_buffer,  \* _alternate_screen_buffer
    main_screen_buffer,       \* _main_screen_buffer
    using_alternate_screen,   \* _using_alternate_screen
    scroll_region,            \* _scroll_region: None or << top, bottom >>
    application_cursor_keys,  \* _application_cursor_keys
    application_keypad_mode,  \* _application_keypad_mode
    mouse_tracking,           \* _mouse_tracking
    mouse_tracking_sgr,       \* _mouse_tracking_sgr
    saved_mouse_tracking,     \* _saved_mouse_tracking
    saved_mouse_tracking_sgr, \* _saved_mouse_tracking_sgr
    bracketed_paste_mode,     \* _bracketed_paste_mode
    current_directory,        \* _current_directory: None or a string
    current_size,             \* _current_size
    line_wrap,                \* lineWrapMode() = WidgetWidth
    overwrite_mode,           \* overwriteMode()
    cursor_width,             \* cursorWidth()
    out,                      \* what the last call emitted through data_ready
    exc,                      \* the exception the last call raised, "" if none
    master_fd,                \* TerminalTab._master_fd: None or MasterFd
    running,                  \* TerminalTab._running
    process,                  \* TerminalTab._process is set
    start_pc,                 \* where the _start_process task is
    read_pc,                  \* where the _read_loop task is
    cleanup_pc,               \* where the _cleanup task is
    fd,                       \* the descriptor openpty() returns: unopened, open, closed
    fd_faults,                \* the calls made on the descriptor while it was closed
    pty_input                 \* the bytes last written to the descriptor

vars ==
    << doc, tc, fv, cursor_row, cursor_col, saved_cursor_position, current_text_format,
       default_text_format, color_mode, escape_seq_buffer, in_escape_seq,
       alternate_screen_buffer, main_screen_buffer,
       using_alternate_screen, scroll_region, application_cursor_keys,
       application_keypad_mode, mouse_tracking, mouse_tracking_sgr, saved_mouse_tracking,
       saved_mouse_tracking_sgr, bracketed_paste_mode, current_directory, current_size,
       line_wrap, overwrite_mode, cursor_width, out, exc,
       master_fd, running, process, start_pc, read_pc, cleanup_pc, fd, fd_faults,
       pty_input >>

\* The state of the tab that owns the widget.
tab ==
    << master_fd, running, process, start_pc, read_pc, cleanup_pc, fd, fd_faults,
       pty_input >>

\* The current state as a record.
T ==
    [doc |-> doc, tc |-> tc, fv |-> fv, cursor_row |-> cursor_row,
     cursor_col |-> cursor_col, saved_cursor_position |-> saved_cursor_position,
     current_text_format |-> current_text_format,
     default_text_format |-> default_text_format, color_mode |-> color_mode,
     escape_seq_buffer |-> escape_seq_buffer, in_escape_seq |-> in_escape_seq,
     alternate_screen_buffer |-> alternate_screen_buffer,
     main_screen_buffer |-> main_screen_buffer,
     using_alternate_screen |-> using_alternate_screen, scroll_region |-> scroll_region,
     application_cursor_keys |-> application_cursor_keys,
     application_keypad_mode |-> application_keypad_mode,
     mouse_tracking |-> mouse_tracking, mouse_tracking_sgr |-> mouse_tracking_sgr,
     saved_mouse_tracking |-> saved_mouse_tracking,
     saved_mouse_tracking_sgr |-> saved_mouse_tracking_sgr,
     bracketed_paste_mode |-> bracketed_paste_mode,
     current_directory |-> current_directory, current_size |-> current_size,
     line_wrap |-> line_wrap, overwrite_mode |-> overwrite_mode,
     cursor_width |-> cursor_width, out |-> out, exc |-> exc]

\* The next state of the widget is the record r.
WidgetBecomes(r) ==
    /\ doc' = r.doc
    /\ tc' = r.tc
    /\ fv' = r.fv
    /\ cursor_row' = r.cursor_row
    /\ cursor_col' = r.cursor_col
    /\ saved_cursor_position' = r.saved_cursor_position
    /\ current_text_format' = r.current_text_format
    /\ default_text_format' = r.default_text_format
    /\ color_mode' = r.color_mode
    /\ escape_seq_buffer' = r.escape_seq_buffer
    /\ in_escape_seq' = r.in_escape_seq
    /\ alternate_screen_buffer' = r.alternate_screen_buffer
    /\ main_screen_buffer' = r.main_screen_buffer
    /\ using_alternate_screen' = r.using_alternate_screen
    /\ scroll_region' = r.scroll_region
    /\ application_cursor_keys' = r.application_cursor_keys
    /\ application_keypad_mode' = r.application_keypad_mode
    /\ mouse_tracking' = r.mouse_tracking
    /\ mouse_tracking_sgr' = r.mouse_tracking_sgr
    /\ saved_mouse_tracking' = r.saved_mouse_tracking
    /\ saved_mouse_tracking_sgr' = r.saved_mouse_tracking_sgr
    /\ bracketed_paste_mode' = r.bracketed_paste_mode
    /\ current_directory' = r.current_directory
    /\ current_size' = r.current_size
    /\ line_wrap' = r.line_wrap
    /\ overwrite_mode' = r.overwrite_mode
    /\ cursor_width' = r.cursor_width
    /\ out' = r.out
    /\ exc' = r.exc

\* The next state is the record r; the tab is as it was.
Becomes(r) == WidgetBecomes(r) /\ UNCHANGED tab

\* Bounds of the model: the longest document, the furthest tracked row and
\* the longest pending sequence a behaviour is followed to.
MaxDocLen == 12
MaxCursorRow == 3
MaxPending == 3

BoundedGrid(r) ==
    /\ Len(r.doc) <= MaxDocLen
    /\ r.cursor_row <= MaxCursorRow

Bounded(r) ==
    /\ BoundedGrid(r)
    /\ Len(r.escape_seq_buffer) <= MaxPending

\* The sizes the viewport takes: _calculate_size() gives any size >= 1 x 1.
Sizes == { TerminalSize(2, 2), TerminalSize(3, 2) }

\* __init__: an empty document, the cursor at the origin, every mode off, the
\* size the viewport has at construction; the tab has created the task that
\* starts the shell and has no descriptor yet.
Init ==
    /\ doc = << >>
    /\ tc = 0
    /\ fv = 0
    /\ cursor_row = 0
    /\ cursor_col = 0
    /\ saved_cursor_position = None
    /\ color_mode = InitialMode
    /\ default_text_format = UpdateDefaultFormat(color_mode)
    /\ current_text_format = default_text_format
    /\ escape_seq_buffer = << >>
    /\ in_escape_seq = FALSE
    /\ alternate_screen_buffer = << >>
    /\ main_screen_buffer = << >>
    /\ using_alternate_screen = FALSE
    /\ scroll_region = None
    /\ application_cursor_keys = FALSE
    /\ application_keypad_mode = FALSE
    /\ mouse_tracking = FALSE
    /\ mouse_tracking_sgr = FALSE
    /\ saved_mouse_tracking = FALSE
    /\ saved_mouse_tracking_sgr = FALSE
    /\ bracketed_paste_mode = FALSE
    /\ current_directory = None
    /\ current_size \in Sizes
    /\ line_wrap = FALSE
    /\ overwrite_mode = FALSE
    /\ cursor_width = 8
    /\ out = << >>
    /\ exc = ""
    /\ master_fd = None
    /\ running = TRUE
    /\ process = FALSE
    /\ start_pc = "created"
    /\ read_pc = "none"
    /\ cleanup_pc = "none"
    /\ fd = "unopened"
    /\ fd_faults = {}
    /\ pty_input = << >>

\* put_data(text)
PutDataCall(text) ==
    \E r \in {PutData(T, text)} : Bounded(r) /\ Becomes(r)

\* resizeEvent with the viewport at size
ResizeCall(size) ==
    \E r \in {ResizeEvent(T, size)} : Bounded(r) /\ Becomes(r)

\* The chunks of host output the default specification feeds.
Chunks ==
    { << "a" >>, << NL >>, << CR >>,
      << ESC, "c" >>, << ESC, "E" >>, << ESC, "7" >>,
      << ESC, "[", "H" >>, << ESC, "[", "1", "J" >>,
      << ESC, "[", "1", ";", "2", "r" >>, << ESC, "[", "2", ";", "1", "r" >> }

Next ==
    \/ \E text \in Chunks : PutDataCall(text)
    \/ \E size \in Sizes : ResizeCall(size)

Spec == Init /\ [][Next]_vars

(* A host that sends runaway sequences: a character that ends whatever is   *)
(* pending followed by a CSI introducer, and parameter digits, one at a     *)
(* time or in a run, that never complete the sequence.                      *)
DigitRun == Repeat("1", 63)

OverflowChunks ==
    { << "a", ESC, "[" >>, DigitRun, << "1" >> }

RunawayCall(text) ==
    \E r \in {PutData(T, text)} : BoundedGrid(r) /\ Becomes(r)

NextOverflow == \E text \in OverflowChunks : RunawayCall(text)

SpecOverflow == Init /\ [][NextOverflow]_vars

---------------------------------------------------------------------------
(* The grid the handlers address: row i of the terminal is the block        *)
(* firstVisibleBlock().blockNumber() + i of the document.                   *)

\* Whether the document holds a block for terminal row `row'.
HasGridRow(t, row) == FirstVisible(t) + row < BlockCount(t.doc)

\* The characters of terminal row `row'.
GridRow(t, row) == BlockText(t.doc, FirstVisible(t) + row)

\* Every terminal row exists and is exactly cols cells wide.
GridShaped(t) ==
    \A row \in 0..(t.current_size.rows - 1) :
        HasGridRow(t, row) /\ Len(GridRow(t, row)) = t.current_size.cols

GridShapedNow == GridShaped(T)

\* The parser is in Ground in t.
Ground(t) == ~t.in_escape_seq

---------------------------------------------------------------------------
(* Claims.                                                                 *)

\* C1: after any sequence of put_data inputs and resize events the tracked
\* cursor satisfies 0 <= row < rows and 0 <= col < cols.
C1_CursorInBounds ==
    /\ 0 <= cursor_row /\ cursor_row < current_size.rows
    /\ 0 <= cursor_col /\ cursor_col < current_size.cols

\* C2: with the terminal size fixed, put_data leaves the grid with exactly
\* rows rows of exactly cols cells each: a step that keeps the size takes a
\* grid of that shape to a grid of that shape.
C2_GridShapeKept ==
    [][(GridShapedNow /\ current_size' = current_size) => GridShapedNow']_vars

\* C7: every sequence ESC c2 with c2 none of [ ] P completes at length 2, so
\* the parser never holds two or more pending characters of such a sequence.
C7_SimpleSequenceCompletes ==
    (in_escape_seq /\ Len(escape_seq_buffer) >= 2 /\ exc = "")
        => escape_seq_buffer[2] \in {"[", "]", "P"}

\* C10: after any DECSTBM sequence and any later resize the scroll region is
\* None or a pair (top, bottom) with 0 <= top <= bottom < rows.
C10_ScrollRegionValid ==
    \/ scroll_region = None
    \/ /\ 0 <= scroll_region[1]
       /\ scroll_region[1] <= scroll_region[2]
       /\ scroll_region[2] < current_size.rows

\* Completed escape sequences of several classes: erase, reset, a mode
\* switch, insert with two parameters, delete with a parameter that is no
\* number, a window operation, and entering and leaving the alternate screen.
CompletedSequences ==
    { << ESC, "[", "2", "J" >>,
      << ESC, "c" >>,
      << ESC, "[", "?", "1", "h" >>,
      << ESC, "[", "1", ";", "2", "@" >>,
      << ESC, "[", "?", "P" >>,
      << ESC, "[", "8", "t" >>,
      << ESC, "[", "?", "1", "0", "4", "9", "h",
         ESC, "[", "?", "1", "0", "4", "9", "l" >> }

\* C3: put_data never raises: from Ground, every completed escape sequence
\* is handled or ignored, and after it the parser is in Ground with an empty
\* accumulator.
C3_PutDataNeverRaises ==
    Ground(T) =>
        \A seq \in CompletedSequences :
            LET r == PutData(T, seq)
            IN  r.exc = "" /\ ~r.in_escape_seq /\ r.escape_seq_buffer = << >>

\* Valid CSI sequences: a status query, cursor addressing, erase, insert and
\* delete, a region, a style and a mode.
CsiSequences ==
    { << ESC, "[", "6", "n" >>,
      << ESC, "[", "2", ";", "1", "H" >>,
      << ESC, "[", "J" >>,
      << ESC, "[", "K" >>,
      << ESC, "[", "1", "@" >>,
      << ESC, "[", "1", "P" >>,
      << ESC, "[", "1", ";", "2", "r" >>,
      << ESC, "[", "1", "m" >>,
      << ESC, "[", "?", "1", "h" >> }

\* The state of t without what the last call emitted.
StateOf(t) == [t EXCEPT !.out = << >>]

\* C4: a valid CSI sequence split at any point across two put_data calls
\* gives the same end state and the same replies as one call with the whole
\* sequence.
C4_SplitCsiSameResult ==
    Ground(T) =>
        \A seq \in CsiSequences : \A k \in 1..(Len(seq) - 1) :
            LET whole  == PutData(T, seq)
                first  == PutData(T, SubSeq(seq, 1, k))
                second == PutData(first, SubSeq(seq, k + 1, Len(seq)))
            IN  /\ StateOf(second) = StateOf(whole)
                /\ first.out \o second.out = whole.out

\* What a program does on the alternate screen: nothing, a write, a cursor
\* movement and a write.
AlternateWork ==
    { << >>, << "a" >>, << ESC, "[", "2", ";", "2", "H", "a" >> }

\* C5: from the main buffer, CSI ?1049 h, work on the alternate screen, then
\* CSI ?1049 l restore the main buffer's text and the cursor position, and
\* the selector is Main again.
C5_AlternateRoundTrip ==
    (Ground(T) /\ ~using_alternate_screen) =>
        \A work \in AlternateWork :
            LET entered == PutData(T, << ESC, "[", "?", "1", "0", "4", "9", "h" >>)
                worked  == PutData(entered, work)
                r       == PutData(worked, << ESC, "[", "?", "1", "0", "4", "9", "l" >>)
            IN  /\ r.exc = ""
                /\ Text(r.doc) = Text(doc)
                /\ r.cursor_row = cursor_row /\ r.cursor_col = cursor_col
                /\ ~r.using_alternate_screen

\* Cursor movements between a save and a restore.
CursorMoves ==
    { << >>, << ESC, "[", "H" >>, << ESC, "[", "C" >>, << CR, NL >> }

\* C8: ESC 7 through put_data stores the cursor in the saved-cursor slot,
\* overwriting an earlier save, and a later ESC 8, after any cursor
\* movement, puts the cursor back there.
C8_SaveRestoreCursor ==
    Ground(T) =>
        LET saved == PutData(T, << ESC, "7" >>)
        IN  /\ saved.saved_cursor_position = << cursor_row, cursor_col >>
            /\ \A move \in CursorMoves :
                   LET r == PutData(PutData(saved, move), << ESC, "8" >>)
                   IN  r.cursor_row = cursor_row /\ r.cursor_col = cursor_col

\* Terminal row `row' of t, or a marker where the document holds no block
\* for it.
RowOf(t, row) == IF HasGridRow(t, row) THEN GridRow(t, row) ELSE << "absent" >>

\* C9: with a scroll region (top, bottom) set and the cursor on row bottom,
\* '\n' moves rows top+1..bottom up by one, blanks row bottom, keeps the
\* cursor on row bottom and leaves the rows outside the region unchanged.
C9_RegionNewlineScrolls ==
    (Ground(T) /\ scroll_region # None /\ cursor_row = scroll_region[2]) =>
        LET top    == scroll_region[1]
            bottom == scroll_region[2]
            r      == PutData(T, << NL >>)
        IN  /\ r.cursor_row = bottom
            /\ \A row \in 0..(current_size.rows - 1) :
                   IF top <= row /\ row < bottom
                   THEN RowOf(r, row) = RowOf(T, row + 1)
                   ELSE IF row = bottom
                   THEN RowOf(r, row) = Repeat(SP, current_size.cols)
                   ELSE RowOf(r, row) = RowOf(T, row)

\* A pending sequence of exactly the 128 characters the limit allows.
PendingFull(t) == t.in_escape_seq /\ Len(t.escape_seq_buffer) = MaxEscapeLen

\* Characters that can arrive next inside a sequence.
NextChars == {"1", ";", "?", ESC, NL, "a"}

C11_ResizeShapesGrid ==
    [][(GridShapedNow /\ current_size' # current_size) => GridShapedNow']_vars

\* The first cols printable characters of a text.
Letters == << "x", "y", "z" >>

\* C12: cols printable characters written from column 0 of row r leave the
\* cursor at (r + 1, 0) and row r holding exactly those characters in order.
C12_FullRowThenWrap ==
    (Ground(T) /\ cursor_col = 0 /\ cursor_row < current_size.rows) =>
        LET text == SubSeq(Letters, 1, current_size.cols)
            r    == PutData(T, text)
        IN  /\ r.cursor_row = cursor_row + 1 /\ r.cursor_col = 0
            /\ RowOf(r, cursor_row) = text

\* C13: with no scroll region and the cursor on the last row of a full grid,
\* advancing to the next row, by '\n' or by the wrap after a character
\* written in the last column, scrolls the grid up by one row and leaves the
\* cursor on the last row.
C13_LastRowAdvanceScrolls ==
    (/\ Ground(T) /\ GridShapedNow
     /\ scroll_region = None /\ cursor_row = current_size.rows - 1) =>
        LET last == current_size.rows - 1
            n    == PutData(T, << NL >>)
            w    == PutData(T, << "x" >>)
        IN  /\ n.cursor_row = last
            /\ \A row \in 0..(last - 1) : RowOf(n, row) = RowOf(T, row + 1)
            /\ cursor_col = current_size.cols - 1 => w.cursor_row = last

\* The printable texts of at most cols characters.
ShortTexts(cols) == { SubSeq(Letters, 1, n) : n \in 1..cols }

\* CSI 2 J, CSI H and a text, in one call.
ClearHomeWrite(text) == << ESC, "[", "2", "J", ESC, "[", "H" >> \o text

\* t's grid holds text from column 0 of row 0 and blanks everywhere else.
OnlyTextAtOrigin(t, text) ==
    /\ RowOf(t, 0) = text \o Repeat(SP, t.current_size.cols - Len(text))
    /\ \A row \in 1..(t.current_size.rows - 1) :
           RowOf(t, row) = Repeat(SP, t.current_size.cols)

\* C14 as stated: from any reachable state, CSI 2 J, CSI H and a printable
\* text of at most cols characters leave row 0 holding the text from column
\* 0 and every other cell of the grid blank.
C14_ClearHomeWriteAnywhere ==
    \A text \in ShortTexts(current_size.cols) :
        OnlyTextAtOrigin(PutData(T, ClearHomeWrite(text)), text)

\* The longest document a behaviour with colour mode changes is followed to.
MaxStyledLen == 5

\* put_data(text) while the document is short.
StyledPutDataCall(text) ==
    \E r \in {PutData(T, text)} :
        Bounded(r) /\ Len(r.doc) <= MaxStyledLen /\ Becomes(r)

\* The style manager changes to a colour mode and emits style_changed.
StyleChangedCall(mode) ==
    \E r \in {HandleStyleChanged([T EXCEPT !.color_mode = mode])} : Becomes(r)

\* Coloured output.
StyleChunks ==
    { << "a" >>, << ESC, "c" >>, << ESC, "[", "3", "2", "m" >>, << ESC, "[", "1", "J" >> }

NextStyle ==
    \/ \E text \in StyleChunks : StyledPutDataCall(text)
    \/ \E mode \in ColorModes : StyleChangedCall(mode)

SpecStyle == Init /\ [][NextStyle]_vars

\* CSI 31 m, X, CSI 39 m, Y.
SgrRoundTrip ==
    << ESC, "[", "3", "1", "m", "X", ESC, "[", "3", "9", "m", "Y" >>

\* The cells of t's document that hold the character c.
CellsHolding(t, c) == { i \in 1..Len(t.doc) : t.doc[i].c = c }

\* C15: after CSI 31 m, X, CSI 39 m, Y the cell holding X has an explicit red
\* foreground and the cell holding Y a default foreground that is not
\* explicit; a change of the colour mode then gives Y the new default
\* foreground and leaves X's foreground as it was.
C15_ExplicitColourSurvivesTheme ==
    Ground(T) =>
        LET r  == PutData(T, SgrRoundTrip)
            xs == CellsHolding(r, "X")
            ys == CellsHolding(r, "Y")
        IN  /\ xs # {} /\ ys # {}
            /\ \A i \in xs : /\ r.doc[i].f.fg = GetColor(color_mode, "TERM_RED")
                             /\ "CUSTOM_FOREGROUND" \in r.doc[i].f.custom
            /\ \A i \in ys : /\ r.doc[i].f.fg = GetColor(color_mode, "TEXT_PRIMARY")
                             /\ "CUSTOM_FOREGROUND" \notin r.doc[i].f.custom
            /\ \A mode \in ColorModes :
                   LET s == HandleStyleChanged([r EXCEPT !.color_mode = mode])
                   IN  /\ CellsHolding(s, "X") = xs /\ CellsHolding(s, "Y") = ys
                       /\ \A i \in xs : s.doc[i].f.fg = r.doc[i].f.fg
                       /\ \A i \in ys : s.doc[i].f.fg = GetColor(mode, "TEXT_PRIMARY")

\* Complete sequences with unparseable parameters or an unknown final byte:
\* DECSTBM with one and with three parameters, CUP with an empty row
\* parameter, a CSI with an unknown final letter.
MalformedSequences ==
    { << ESC, "[", "1", "r" >>, << ESC, "[", "1", ";", "2", ";", "3", "r" >>,
      << ESC, "[", ";", "2", "H" >>, << ESC, "[", "1", "z" >> }

\* The engine state of t: grid, cursor, current style, scroll region, saved
\* cursor and mode flags.
EngineState(t) ==
    << t.doc, t.cursor_row, t.cursor_col, t.current_text_format, t.scroll_region,
       t.saved_cursor_position, t.application_cursor_keys, t.application_keypad_mode,
       t.bracketed_paste_mode, t.mouse_tracking, t.mouse_tracking_sgr >>

\* C16: a complete escape sequence with unparseable parameters or an unknown
\* final byte leaves grid, cursor, current style, scroll region, saved cursor
\* and mode flags as they were.
C16_MalformedChangesNothing ==
    Ground(T) =>
        \A seq \in MalformedSequences : EngineState(PutData(T, seq)) = EngineState(T)

(* A host that sets and resets modes, its sequences arriving one character  *)
(* at a time, and a user who presses keys and pastes.                       *)

\* The sequences the host sends.
ModeTraffic ==
    { << ESC, "=" >>, << ESC, ">" >>, << ESC, "c" >>,
      << ESC, "[", "?", "1", "h" >>, << ESC, "[", "?", "1", "l" >>,
      << ESC, "[", "?", "2", "0", "0", "4", "h" >>, << ESC, "[", "?", "2", "0", "0", "4", "l" >>,
      << ESC, "[", "?", "1", "0", "0", "2", "h" >>, << ESC, "[", "?", "1", "0", "0", "2", "l" >>,
      << ESC, "[", "?", "1", "0", "0", "6", "h" >>, << ESC, "[", "?", "1", "0", "0", "6", "l" >>,
      << ESC, "[", "1", "h" >> }

\* The characters of the host's sequences.
ModeChars == UNION { { seq[i] : i \in 1..Len(seq) } : seq \in ModeTraffic }

\* s is the start of one of the host's sequences.
StartsModeTraffic(s) ==
    \E seq \in ModeTraffic : Len(s) <= Len(seq) /\ SubSeq(seq, 1, Len(s)) = s

\* put_data(char): the next character of a sequence of the host.
FeedChar(char) ==
    /\ StartsModeTraffic(Append(escape_seq_buffer, char))
    /\ \E r \in {PutData(T, << char >>)} : BoundedGrid(r) /\ Becomes(r)

\* The key events and the pastes of the user.
KeyEvents ==
    { << "Key_Up", {}, << >> >>, << "Key_1", {}, << "1" >> >>,
      << "Key_C", {"ControlModifier"}, << "ETX" >> >> }
Pastes == { [hasText |-> TRUE, text |-> << "a" >>], [hasText |-> FALSE, text |-> << >>] }

KeyPressCall(event) ==
    \E r \in {KeyPressEvent(T, event[1], event[2], event[3])} : Becomes(r)

PasteCall(source) ==
    \E r \in {InsertFromMimeData(T, source)} : Becomes(r)

NextModes ==
    \/ \E char \in ModeChars : FeedChar(char)
    \/ \E event \in KeyEvents : KeyPressCall(event)
    \/ \E source \in Pastes : PasteCall(source)

SpecModes == Init /\ [][NextModes]_vars

\* The mode flags of t.
ModeFlags(t) ==
    [application_cursor_keys |-> t.application_cursor_keys,
     application_keypad_mode |-> t.application_keypad_mode,
     bracketed_paste_mode |-> t.bracketed_paste_mode,
     mouse_tracking |-> t.mouse_tracking,
     mouse_tracking_sgr |-> t.mouse_tracking_sgr]

\* CSI ? n h and CSI ? n l.
PrivateModeSequences(n) ==
    { << ESC, "[", "?" >> \o n \o << final >> : final \in {"h", "l"} }

\* The sequences that name a mode flag, and the full reset.
NamingSequences(flag) ==
    { << ESC, "c" >> } \cup
    CASE flag = "application_cursor_keys" -> PrivateModeSequences(<< "1" >>)
      [] flag = "application_keypad_mode" -> { << ESC, "=" >>, << ESC, ">" >> }
      [] flag = "bracketed_paste_mode" -> PrivateModeSequences(<< "2", "0", "0", "4" >>)
      [] flag = "mouse_tracking" ->
            PrivateModeSequences(<< "1", "0", "0", "0" >>) \cup
            PrivateModeSequences(<< "1", "0", "0", "1" >>) \cup
            PrivateModeSequences(<< "1", "0", "0", "2" >>) \cup
            PrivateModeSequences(<< "1", "0", "0", "3" >>)
      [] flag = "mouse_tracking_sgr" -> PrivateModeSequences(<< "1", "0", "0", "6" >>)

\* Characters of host output: those of the mode sequences, and text, controls
\* and the parameter and final characters of other sequences.
OutputChars ==
    ModeChars \cup { "a", NL, CR, BS, TAB, BEL, ";", "3", "5", "9", "~", SP,
                     "r", "s", "z", "m", "H", "J", "K", "L", "M", "n", "t", "]" }

\* t after a run of digits longer than any sequence the accumulator keeps,
\* fed in three calls.
AfterOversizedRun(t) == PutData(PutData(PutData(t, DigitRun), DigitRun), DigitRun)

\* C17: a mode flag changes only when the character processed completes a
\* set/reset sequence naming that flag (CSI ? n h / l, ESC =, ESC >) or the
\* full reset ESC c; every other character of host output, an oversized
\* sequence, a resize, a key event and a paste leave all the flags as they are.
C17_ModeFlagsFrame ==
    /\ \A char \in OutputChars :
           LET r == PutData(T, << char >>)
           IN  \A flag \in DOMAIN ModeFlags(T) :
                   ModeFlags(r)[flag] # ModeFlags(T)[flag] =>
                       /\ in_escape_seq
                       /\ Append(escape_seq_buffer, char) \in NamingSequences(flag)
    /\ ModeFlags(AfterOversizedRun(T)) = ModeFlags(T)
    /\ \A size \in Sizes : ModeFlags(ResizeEvent(T, size)) = ModeFlags(T)
    /\ \A event \in KeyEvents :
           ModeFlags(KeyPressEvent(T, event[1], event[2], event[3])) = ModeFlags(T)
    /\ \A source \in Pastes : ModeFlags(InsertFromMimeData(T, source)) = ModeFlags(T)

\* A state with a mode flag set and the start of a sequence pending.
C17_FlagSetAndSequencePending ==
    /\ in_escape_seq /\ Len(escape_seq_buffer) >= 3
    /\ bracketed_paste_mode /\ mouse_tracking /\ ~application_cursor_keys
    /\ GridShapedNow

(* A host that switches between the main and the alternate screen.          *)

EnterAlternate == << ESC, "[", "?", "1", "0", "4", "9", "h" >>
LeaveAlternate == << ESC, "[", "?", "1", "0", "4", "9", "l" >>

BufferChunks == { << "a" >>, << NL >>, EnterAlternate, LeaveAlternate }

NextBuffers == \E text \in BufferChunks : RunawayCall(text)

SpecBuffers == Init /\ [][NextBuffers]_vars

\* What a request for the active buffer must leave alone: grid, cursor,
\* saved-cursor slot, saved main content and buffer selector.
BufferState(t) ==
    << t.doc, t.cursor_row, t.cursor_col, t.tc, t.saved_cursor_position,
       t.main_screen_buffer, t.using_alternate_screen >>

LineSequences ==
    { << ESC, "[", "L" >>, << ESC, "[", "M" >>, << ESC, "[", "2", "M" >> }

\* C19: a region scroll over [top, bottom] leaves a cursor that was inside
\* the region inside it and does not move a cursor that was outside it; CSI n
\* L and CSI n M leave the cursor where it was.
C19_RegionScrollKeepsCursor ==
    (Ground(T) /\ GridShapedNow /\ cursor_row < current_size.rows) =>
        /\ \A top \in 0..(current_size.rows - 1) :
           \A bottom \in top..(current_size.rows - 1) :
           \A t \in { ScrollRegionUp(T, top, bottom), ScrollRegionDown(T, top, bottom) } :
               /\ t.cursor_col = cursor_col
               /\ IF top <= cursor_row /\ cursor_row <= bottom
                  THEN top <= t.cursor_row /\ t.cursor_row <= bottom
                  ELSE t.cursor_row = cursor_row
        /\ \A seq \in LineSequences :
               LET t == PutData(T, seq)
               IN  t.cursor_row = cursor_row /\ t.cursor_col = cursor_col

\* CSI n K for an erase mode, mode 0 also in its short form CSI K.
EraseInLine(mode) ==
    IF mode = "" THEN << ESC, "[", "K" >> ELSE << ESC, "[", mode, "K" >>

\* Whether CSI n K is to blank column col of the cursor's row, the cursor
\* being at column c: "either" for the cursor's own cell in mode 1.
Erased(mode, c, col) ==
    IF mode \in {"", "0"} THEN (IF col >= c THEN "yes" ELSE "no")
    ELSE IF mode = "1" THEN (IF col < c THEN "yes" ELSE IF col = c THEN "either" ELSE "no")
    ELSE "yes"

\* C20: CSI n K erases in the row of the tracked cursor only: in mode 0 the
\* cells from the cursor column to the end of the row, in mode 1 the cells
\* from the start of the row up to the cursor, in mode 2 the whole row; every
\* other cell of the grid and the cursor position are unchanged.
C20_EraseInLineAtTrackedCursor ==
    (Ground(T) /\ GridShapedNow /\ cursor_row < current_size.rows) =>
        \A mode \in {"", "0", "1", "2"} :
            LET t == PutData(T, EraseInLine(mode))
            IN  /\ t.cursor_row = cursor_row /\ t.cursor_col = cursor_col
                /\ \A row \in 0..(current_size.rows - 1) :
                       row # cursor_row => RowOf(t, row) = RowOf(T, row)
                /\ Len(RowOf(t, cursor_row)) = current_size.cols
                /\ \A col \in 0..(current_size.cols - 1) :
                       LET was == RowOf(T, cursor_row)[col + 1]
                           is  == RowOf(t, cursor_row)[col + 1]
                           e   == Erased(mode, cursor_col, col)
                       IN  /\ e = "yes" => is = SP
                           /\ e = "no" => is = was
                           /\ e = "either" => is \in {SP, was}

\* Whether CSI n J (n = 0, 1) is to blank the cell (row, col), the cursor
\* being at (r, c): "either" for the cursor's own cell in mode 1.
ErasedInDisplay(mode, r, c, row, col) ==
    IF mode = "0"
    THEN (IF row > r \/ (row = r /\ col >= c) THEN "yes" ELSE "no")
    ELSE (IF row < r \/ (row = r /\ col < c) THEN "yes"
          ELSE IF row = r /\ col = c THEN "either" ELSE "no")

\* C21: CSI 0 J blanks exactly the cells from the tracked cursor to the end
\* of the grid and CSI 1 J exactly the cells from the origin to the tracked
\* cursor; the cells outside that range keep their content and the cursor
\* position is unchanged.
C21_EraseInDisplayAtTrackedCursor ==
    (Ground(T) /\ GridShapedNow /\ cursor_row < current_size.rows) =>
        \A mode \in {"0", "1"} :
            LET t == PutData(T, << ESC, "[", mode, "J" >>)
            IN  /\ t.cursor_row = cursor_row /\ t.cursor_col = cursor_col
                /\ \A row \in 0..(current_size.rows - 1) :
                       /\ Len(RowOf(t, row)) = current_size.cols
                       /\ \A col \in 0..(current_size.cols - 1) :
                              LET was == RowOf(T, row)[col + 1]
                                  is  == RowOf(t, row)[col + 1]
                                  e   == ErasedInDisplay(mode, cursor_row, cursor_col, row, col)
                              IN  /\ e = "yes" => is = SP
                                  /\ e = "no" => is = was
                                  /\ e = "either" => is \in {SP, was}

\* CSI n followed by a final character, n given as its digits or omitted.
CsiCount(n, final) == << ESC, "[" >> \o n \o << final >>

\* The counts the insert and delete claims are tried with, as written and as
\* numbers.
Counts == { << << >>, 1 >>, << << "1" >>, 1 >>, << << "2" >>, 2 >> }

\* A row with the n cells from column c deleted: what was to their right
\* moved left, blanks at the end.
WithCellsDeleted(row, c, n) ==
    LET kept == Slice(row, 1, c) \o Slice(row, c + n + 1, Len(row))
    IN  kept \o Repeat(SP, Len(row) - Len(kept))

\* C22: CSI n P at cursor (r, c) deletes the n cells from column c: the cells
\* to their right move left by n, the last n cells of row r become blank, the
\* row keeps cols cells, and the other rows and the cursor are unchanged.
C22_DeleteCharsShiftsLeft ==
    (Ground(T) /\ GridShapedNow /\ cursor_row < current_size.rows) =>
        \A n \in Counts :
            LET t == PutData(T, CsiCount(n[1], "P"))
            IN  /\ t.cursor_row = cursor_row /\ t.cursor_col = cursor_col
                /\ RowOf(t, cursor_row) = WithCellsDeleted(RowOf(T, cursor_row), cursor_col, n[2])
                /\ \A row \in 0..(current_size.rows - 1) :
                       row # cursor_row => RowOf(t, row) = RowOf(T, row)

\* A row with min(n, cols - c) blanks put in at column c: what was at column
\* c and to its right moved right, what passes the last column dropped.
WithBlanksInserted(row, c, n) ==
    LET k == Min(n, Len(row) - c)
    IN  Slice(row, 1, c) \o Repeat(SP, k) \o Slice(row, c + 1, Len(row) - k)

\* C23: CSI n @ at cursor (r, c) puts min(n, cols - c) blanks at column c,
\* shifts the previous contents of columns c.. right by that amount, drops
\* what would pass the last column, and leaves the row length, the other rows
\* and the cursor unchanged.
C23_InsertBlanksShiftsRight ==
    (Ground(T) /\ GridShapedNow /\ cursor_row < current_size.rows) =>
        \A n \in Counts :
            LET t == PutData(T, CsiCount(n[1], "@"))
            IN  /\ t.cursor_row = cursor_row /\ t.cursor_col = cursor_col
                /\ RowOf(t, cursor_row) = WithBlanksInserted(RowOf(T, cursor_row), cursor_col, n[2])
                /\ \A row \in 0..(current_size.rows - 1) :
                       row # cursor_row => RowOf(t, row) = RowOf(T, row)

\* The cursor position parameters the claim is tried with, and the row and
\* column (1-based) they name: an omitted or empty one counts as 1.
PositionParams ==
    { << << >>, 1, 1 >>, << << "3" >>, 3, 1 >>, << << ";", "5" >>, 1, 5 >>,
      << << "3", ";" >>, 3, 1 >>, << << "2", ";", "2" >>, 2, 2 >>,
      << << "9", ";", "9" >>, 9, 9 >>, << << "1", ";", "2" >>, 1, 2 >> }

\* C24: CSI r;c H and CSI r;c f move the cursor to (r - 1, c - 1) clamped
\* into the grid, an omitted or empty r or c counting as 1.
C24_CursorPositionClamped ==
    Ground(T) =>
        \A p \in PositionParams : \A final \in {"H", "f"} :
            LET t == PutData(T, CsiCount(p[1], final))
            IN  /\ t.cursor_row = Min(p[2] - 1, current_size.rows - 1)
                /\ t.cursor_col = Min(p[3] - 1, current_size.cols - 1)

\* C25: '\t' moves the cursor to the next column that is a multiple of 8, or
\* to the last column when that multiple is not below cols; the cursor row
\* and the grid content are unchanged.
C25_TabAdvances ==
    Ground(T) =>
        LET t    == PutData(T, << TAB >>)
            stop == 8 * ((cursor_col \div 8) + 1)
        IN  /\ t.cursor_col = Min(stop, current_size.cols - 1)
            /\ t.cursor_row = cursor_row
            /\ t.doc = doc

\* The scroll region in force in t: the one set, or the whole grid.
RegionOf(t) ==
    IF t.scroll_region # None THEN t.scroll_region ELSE << 0, t.current_size.rows - 1 >>

\* The rows of t's grid, top to bottom.
GridRows(t) == [i \in 1..t.current_size.rows |-> RowOf(t, i - 1)]

\* C26: ESC M with the cursor on the top row of the scroll region scrolls the
\* region down by one row, and ESC D with the cursor on the bottom row of the
\* region scrolls it up by one, in both cases keeping the cursor row;
\* elsewhere they move the tracked cursor one row up / down and leave the
\* grid unchanged.
C26_IndexAndReverseIndex ==
    (/\ Ground(T) /\ GridShapedNow /\ BlockCount(doc) = current_size.rows
     /\ cursor_row < current_size.rows
     /\ scroll_region # None => /\ 0 <= scroll_region[1]
                                /\ scroll_region[1] <= scroll_region[2]
                                /\ scroll_region[2] < current_size.rows) =>
        LET top     == RegionOf(T)[1]
            bottom  == RegionOf(T)[2]
            blank   == Repeat(SP, current_size.cols)
            up      == PutData(T, << ESC, "M" >>)
            down    == PutData(T, << ESC, "D" >>)
        IN  /\ IF cursor_row = top
               THEN /\ up.cursor_row = cursor_row
                    /\ \A row \in 0..(current_size.rows - 1) :
                           RowOf(up, row) = IF row < top \/ row > bottom THEN RowOf(T, row)
                                            ELSE IF row = top THEN blank
                                            ELSE RowOf(T, row - 1)
               ELSE /\ up.cursor_row = cursor_row - 1
                    /\ GridRows(up) = GridRows(T)
            /\ IF cursor_row = bottom
               THEN /\ down.cursor_row = cursor_row
                    /\ \A row \in 0..(current_size.rows - 1) :
                           RowOf(down, row) = IF row < top \/ row > bottom THEN RowOf(T, row)
                                              ELSE IF row = bottom THEN blank
                                              ELSE RowOf(T, row + 1)
               ELSE /\ down.cursor_row = cursor_row + 1
                    /\ GridRows(down) = GridRows(T)
            /\ up.cursor_col = cursor_col /\ down.cursor_col = cursor_col


\* C27: CSI 6 n emits exactly one reply, ESC [ row ; col R with (row, col) the
\* tracked cursor position plus one in each coordinate, and changes no
\* engine state.
C27_CursorReportIsTrackedCursor ==
    (Ground(T) /\ GridShapedNow /\ cursor_row < current_size.rows) =>
        LET t == PutData(T, << ESC, "[", "6", "n" >>)
        IN  /\ t.out = << << ESC, "[" >> \o IntToStr(cursor_row + 1) \o << ";" >>
                          \o IntToStr(cursor_col + 1) \o << "R" >> >>
            /\ EngineState(t) = EngineState(T)


\* C28: ESC c returns the engine to its initial state: blank grid, cursor at
\* (0, 0), current style the default, no scroll region, empty saved-cursor
\* slot, main buffer selected and every mode flag cleared.
C28_FullResetRestoresInitialState ==
    Ground(T) =>
        LET t == PutData(T, << ESC, "c" >>)
        IN  /\ \A row \in 0..(current_size.rows - 1) :
                   RowOf(t, row) = Repeat(SP, current_size.cols)
            /\ t.cursor_row = 0 /\ t.cursor_col = 0
            /\ t.current_text_format = t.default_text_format
            /\ t.scroll_region = None
            /\ t.saved_cursor_position = None
            /\ ~t.using_alternate_screen
            /\ ~t.application_cursor_keys /\ ~t.application_keypad_mode
            /\ ~t.bracketed_paste_mode
            /\ ~t.mouse_tracking /\ ~t.mouse_tracking_sgr


\* CSI ? mode h / CSI ? mode l
PrivateMode(mode, final) == << ESC, "[", "?" >> \o mode \o << final >>

\* C29: CSI ?1000 h and CSI ?1002 h set the mouse-tracking flag and the
\* matching l sequences clear it; CSI ?1006 h / l set / clear the SGR-mouse
\* flag; each changes only the flag it names.
C29_MouseModesSetTheirFlag ==
    Ground(T) =>
        \A final \in { "h", "l" } :
            /\ \A mode \in { << "1", "0", "0", "0" >>, << "1", "0", "0", "2" >> } :
                   LET t == PutData(T, PrivateMode(mode, final))
                   IN  EngineState(t)
                           = EngineState([T EXCEPT !.mouse_tracking = (final = "h")])
            /\ LET t == PutData(T, PrivateMode(<< "1", "0", "0", "6" >>, final))
               IN  EngineState(t)
                       = EngineState([T EXCEPT !.mouse_tracking_sgr = (final = "h")])

\* The byte sequences that could carry the 1001 s / 1001 r pseudo-modes: the
\* pseudo-mode alone, or as the mode of a set / reset.
SnapshotSequences ==
    { [save    |-> << ESC, "[", "?", "1", "0", "0", "1", "s" >> \o tail,
       restore |-> << ESC, "[", "?", "1", "0", "0", "1", "r" >> \o tail] :
          tail \in { << >>, << "h" >>, << "l" >> } }

\* The sequences that change a mouse mode.
MouseModeChanges ==
    UNION { PrivateModeSequences(n) :
                n \in { << "1", "0", "0", "1" >>, << "1", "0", "0", "2" >>,
                        << "1", "0", "0", "6" >> } }

\* C30: some byte sequence saves the two mouse-tracking flags and some
\* sequence restores them: after the save, any mouse-mode change and the
\* restore, both flags are what they were at the save.
C30_MouseSnapshotReachable ==
    Ground(T) =>
        \E s \in SnapshotSequences :
            \A change \in MouseModeChanges :
                LET t == PutData(PutData(PutData(T, s.save), change), s.restore)
                IN  /\ t.mouse_tracking = mouse_tracking
                    /\ t.mouse_tracking_sgr = mouse_tracking_sgr


(* Keys and pastes against the mode flags.                                  *)

\* The arrow keys and the final character of their sequences.
ArrowKeys == { << "Key_Up", "A" >>, << "Key_Down", "B" >>, << "Key_Right", "C" >>,
               << "Key_Left", "D" >> }

\* The modifier sets a key can come with.
ModifierSets == SUBSET { "ShiftModifier", "ControlModifier" }

\* The step feeds the character that completes the sequence seq.
Completes(seq) ==
    \E char \in ModeChars : Append(escape_seq_buffer, char) = seq /\ FeedChar(char)

\* Every arrow key encodes in t as ESC, intro, and its letter.
ArrowsEncodeWith(t, intro) ==
    \A arrow \in ArrowKeys : \A modifiers \in ModifierSets :
        KeyPressEvent(t, arrow[1], modifiers, << >>).out = << << ESC, intro, arrow[2] >> >>

\* C31: an arrow key encodes as ESC O A/B/C/D when the most recently
\* processed of CSI ?1 h, CSI ?1 l and ESC c was CSI ?1 h, and as
\* ESC [ A/B/C/D otherwise: it starts as ESC [, and after every step it is
\* ESC O exactly when the step completed CSI ?1 h, or it was ESC O before and
\* the step completed neither CSI ?1 l nor ESC c.
C31_ArrowKeysFollowLastCursorKeyMode ==
    /\ ArrowsEncodeWith(T, "[")
    /\ [][ LET application ==
                  \/ Completes(<< ESC, "[", "?", "1", "h" >>)
                  \/ /\ ArrowsEncodeWith(T, "O")
                     /\ ~Completes(<< ESC, "[", "?", "1", "l" >>)
                     /\ ~Completes(<< ESC, "c" >>)
           IN  IF application THEN ArrowsEncodeWith(T, "O")'
                               ELSE ArrowsEncodeWith(T, "[")' ]_vars

\* An arrow key was pressed with the application cursor keys on, after the
\* keypad was switched to application mode.
C31_ArrowPressedInApplicationMode ==
    /\ application_cursor_keys /\ application_keypad_mode
    /\ out = << << ESC, "O", "A" >> >>


\* Texts a paste can carry: empty, plain, with a non-ASCII character, and the
\* closing bracket itself.
PasteTexts ==
    { << >>, << "a" >>, << E_ACUTE, "a" >>, << ESC, "[", "2", "0", "1", "~" >> }

\* A paste in t emits each text between the two brackets (bracketed), or
\* alone.
PasteEmits(t, bracketed) ==
    \A text \in PasteTexts :
        InsertFromMimeData(t, [hasText |-> TRUE, text |-> text]).out
            = IF bracketed
              THEN << << ESC, "[", "2", "0", "0", "~" >>, Encode(text),
                      << ESC, "[", "2", "0", "1", "~" >> >>
              ELSE << Encode(text) >>

\* C32: a paste of a text emits ESC[200~, the bytes of the text and ESC[201~,
\* in that order, exactly when the bracketed-paste flag is set, and the bytes
\* of the text alone otherwise; the flag is set exactly when the most recent
\* of CSI ?2004 h, CSI ?2004 l and ESC c was the h.
C32_PasteBracketedByLastMode ==
    /\ ~bracketed_paste_mode
    /\ [][ bracketed_paste_mode' =
               (\/ Completes(<< ESC, "[", "?", "2", "0", "0", "4", "h" >>)
                \/ /\ bracketed_paste_mode
                   /\ ~Completes(<< ESC, "[", "?", "2", "0", "0", "4", "l" >>)
                   /\ ~Completes(<< ESC, "c" >>)) ]_vars
    /\ [] PasteEmits(T, bracketed_paste_mode)

\* A text was pasted with bracketed paste on.
C32_PastedInBrackets ==
    /\ bracketed_paste_mode
    /\ out = << << ESC, "[", "2", "0", "0", "~" >>, << "a" >>, << ESC, "[", "2", "0", "1", "~" >> >>


\* C33: whatever the application cursor keys and the application keypad
\* flags, Return and Enter emit exactly CR, and Backspace emits DEL when Ctrl
\* is held and BS otherwise.
C33_EnterAndBackspace ==
    \A modifiers \in ModifierSets :
        /\ \A key \in { "Key_Return", "Key_Enter" } :
               KeyPressEvent(T, key, modifiers, << CR >>).out = << << CR >> >>
        /\ KeyPressEvent(T, "Key_Backspace", modifiers, << BS >>).out
               = << << IF "ControlModifier" \in modifiers THEN DEL ELSE BS >> >>


(* A host that writes text and sets modes, and a user who presses keys and  *)
(* pastes.                                                                  *)

KeyChunks ==
    { << "a" >>, << ESC, "c" >>, << ESC, "[" >>, << ESC, "=" >>,
      << ESC, "[", "?", "1", "h" >>, << ESC, "[", "?", "2", "0", "0", "4", "h" >>,
      << ESC, "[", "1", ";", "2", "r" >> }

NextKeys ==
    \/ \E text \in KeyChunks : StyledPutDataCall(text)
    \/ \E event \in KeyEvents : KeyPressCall(event)
    \/ \E source \in Pastes : PasteCall(source)

SpecKeys == Init /\ [][NextKeys]_vars

\* The key events of the encoder's table, and some outside it.
AllKeyEvents ==
    { << key, modifiers, text >> :
        key \in { arrow[1] : arrow \in ArrowKeys } \cup
                { "Key_Return", "Key_Enter", "Key_Backspace", "Key_Delete", "Key_Tab",
                  "Key_A", "Key_C", "Key_1", "Key_8", "Key_F1" },
        modifiers \in ModifierSets,
        text \in { << >>, << E_ACUTE, "a" >> } }

AllPastes ==
    { [hasText |-> TRUE, text |-> text] : text \in PasteTexts }
    \cup { [hasText |-> FALSE, text |-> << >>] }

\* t without what a call emits and raises.
Silent(t) == [t EXCEPT !.out = << >>, !.exc = ""]

\* An engine with the mode flags of t and nothing else of it: no grid, the
\* cursor at the origin, the default style, no scroll region, no saved
\* cursor and an empty accumulator.
FlagsOnly(t) ==
    [t EXCEPT !.doc = << >>, !.tc = 0, !.fv = 0, !.cursor_row = 0, !.cursor_col = 0,
              !.saved_cursor_position = None,
              !.current_text_format = t.default_text_format,
              !.escape_seq_buffer = << >>, !.in_escape_seq = FALSE,
              !.scroll_region = None, !.out = << >>, !.exc = ""]

\* C34: a key event or a paste changes neither grid, cursor, current style,
\* scroll region, accumulator nor mode flags (nor anything but what it
\* emits), and it emits what an engine with the same mode flags and any
\* other grid and cursor emits for it.
C34_EncoderIsPureAndFramed ==
    /\ \A event \in AllKeyEvents :
           LET r == KeyPressEvent(T, event[1], event[2], event[3])
           IN  /\ Silent(r) = Silent(T)
               /\ r.exc = ""
               /\ r.out = KeyPressEvent(FlagsOnly(T), event[1], event[2], event[3]).out
    /\ \A source \in AllPastes :
           LET r == InsertFromMimeData(T, source)
           IN  /\ Silent(r) = Silent(T)
               /\ r.exc = ""
               /\ r.out = InsertFromMimeData(FlagsOnly(T), source).out

\* A key was pressed with text on the grid, the cursor off the origin, a
\* scroll region set, a sequence pending and mode flags set.
C34_KeyPressedOverBusyEngine ==
    /\ out = << << ESC, "O", "A" >> >>
    /\ GridShapedNow /\ \E i \in 1..Len(doc) : doc[i].c = "a"
    /\ cursor_col > 0 /\ scroll_region # None
    /\ in_escape_seq /\ bracketed_paste_mode


(* A host that selects graphic renditions.                                  *)

\* CSI params m
Sgr(params) == << ESC, "[" >> \o params \o << "m" >>

SgrChunks ==
    { Sgr(params) : params \in { << >>, << "0" >>, << "1" >>, << "2" >>, << "3" >>, << "4" >>,
                                 << "2", "2" >>, << "3", "1" >>, << "3", "9" >>,
                                 << "4", "1" >>, << "4", "9" >>, << "9", "5" >>,
                                 << "1", "0", "5" >>, << "5" >> } }

NextSgr == \E text \in SgrChunks : RunawayCall(text)

SpecSgr == Init /\ [][NextSgr]_vars

\* For each attribute of a style: the marker that makes it explicit, the
\* codes that set it and the codes that reset it.
SgrAttributes ==
    { [marker |-> "CUSTOM_FOREGROUND", set |-> (30..37) \cup (90..97), reset |-> {0, 39}],
      [marker |-> "CUSTOM_BACKGROUND", set |-> (40..47) \cup (100..107), reset |-> {0, 49}],
      [marker |-> "CUSTOM_WEIGHT", set |-> {1, 2}, reset |-> {0, 22}],
      [marker |-> "CUSTOM_ITALIC", set |-> {3}, reset |-> {0, 23}],
      [marker |-> "CUSTOM_UNDERLINE", set |-> {4}, reset |-> {0, 24}] }

\* Codes with a meaning, at the ends of their ranges, and codes without.
KnownCodes ==
    { 0, 1, 2, 3, 4, 22, 23, 24, 30, 37, 39, 40, 47, 49, 90, 97, 100, 107 }
UnknownCodes == { 5, 21, 29, 38, 48, 89, 98, 99, 108 }

\* Lists of at most two codes.
CodeLists ==
    { << >> } \cup { << a >> : a \in KnownCodes \cup UnknownCodes }
    \cup { << a, b >> : a, b \in KnownCodes \cup UnknownCodes }

\* The parameter string of a list of codes.
ParamsOf(codes) ==
    IF Len(codes) = 0 THEN << >>
    ELSE IF Len(codes) = 1 THEN IntToStr(codes[1])
    ELSE IntToStr(codes[1]) \o << ";" >> \o IntToStr(codes[2])

\* C35: after a list of SGR codes an attribute of the current style is
\* explicit iff the last code of the list that affects it sets it, and as it
\* was when no code of the list affects it; initially nothing is explicit, so
\* after any sequence of codes the foreground is explicit iff the last of
\* 0, 30-37, 90-97, 39 was in 30-37 or 90-97, and likewise the background,
\* weight, italic and underline.  Unknown codes change nothing and an empty
\* parameter list acts as 0.
C35_ExplicitFollowsLastCode ==
    (Ground(T) /\ exc = "") =>
        /\ \A codes \in CodeLists :
               LET after == PutData(T, Sgr(ParamsOf(codes))).current_text_format
                   list  == IF codes = << >> THEN << 0 >> ELSE codes
               IN  /\ \A attr \in SgrAttributes :
                          LET hits == { i \in 1..Len(list) : list[i] \in attr.set \cup attr.reset }
                          IN  attr.marker \in after.custom
                                  <=> IF hits = {} THEN attr.marker \in current_text_format.custom
                                      ELSE list[SetMax(hits)] \in attr.set
                   /\ (codes # << >> /\ \A i \in 1..Len(codes) : codes[i] \in UnknownCodes)
                          => after = current_text_format
        /\ PutData(T, Sgr(<< >>)) = PutData(T, Sgr(<< "0" >>))
        /\ PutData(T, Sgr(<< "4", ":", "3" >>)).current_text_format = current_text_format

\* Foreground and weight are explicit, the other attributes are not.
C35_SomeExplicitSomeNot ==
    /\ current_text_format.custom = { "CUSTOM_FOREGROUND", "CUSTOM_WEIGHT" }
    /\ current_text_format.weight = "Light"


\* The parser state of t is consistent and bounded.
ParserConsistent(t) ==
    IF t.in_escape_seq
    THEN /\ 1 <= Len(t.escape_seq_buffer) /\ Len(t.escape_seq_buffer) <= MaxEscapeLen
         /\ t.escape_seq_buffer[1] = ESC
    ELSE t.escape_seq_buffer = << >>

\* C36: between any two input characters the parser state is consistent and
\* bounded: with the in-sequence flag false the accumulator is empty, with it
\* true the accumulator starts with ESC and holds 1 to 128 characters; so the
\* character after a pending sequence of 128 returns the parser to Ground.
C36_ParserConsistentAndBounded ==
    /\ ParserConsistent(T)
    /\ \A char \in { "a", "1", ";", "t", ESC, NL } :
           LET t == PutData(T, << char >>)
           IN  /\ ParserConsistent(t)
               /\ (in_escape_seq /\ Len(escape_seq_buffer) = MaxEscapeLen) => ~t.in_escape_seq


\* The position a later ESC 8 restores, None when nothing is saved, and the
\* position the return to the main screen restores.
DecSavedCursor(t) == t.saved_cursor_position
SwitchSavedCursor(t) == t.saved_cursor_position

\* C37: the DEC saved-cursor slot and the cursor saved for the
\* alternate-screen switch do not interfere: entering or leaving the
\* alternate screen leaves the position a later ESC 8 restores unchanged, and
\* a DEC cursor save made on the alternate screen leaves the position
\* restored on return to the main screen unchanged.
C37_SavedCursorsDoNotInterfere ==
    (Ground(T) /\ exc = "") =>
        /\ DecSavedCursor(PutData(T, EnterAlternate)) = DecSavedCursor(T)
        /\ DecSavedCursor(PutData(T, LeaveAlternate)) = DecSavedCursor(T)
        /\ PutData(PutData(T, EnterAlternate), << "a", ESC, "8" >>).cursor_col
               = PutData(T, << "a", ESC, "8" >>).cursor_col
        /\ using_alternate_screen =>
               SwitchSavedCursor(HandleSimpleSequence(T, "7").t) = SwitchSavedCursor(T)


---------------------------------------------------------------------------
(* The tab that owns the widget: the task that starts the shell on a       *)
(* pseudo-terminal, the task that reads from the master descriptor, the    *)
(* slot that writes what the widget emits to it, and close().  The tasks   *)
(* run on one event loop: a task runs from one await to the next.          *)

MasterFd == << "master_fd" >>

\* The state of the tab as a record.
Tab ==
    [master_fd |-> master_fd, running |-> running, process |-> process,
     start_pc |-> start_pc, read_pc |-> read_pc, cleanup_pc |-> cleanup_pc,
     fd |-> fd, fd_faults |-> fd_faults, pty_input |-> pty_input]

\* The next state of the tab is the record b.
TabBecomes(b) ==
    /\ master_fd' = b.master_fd
    /\ running' = b.running
    /\ process' = b.process
    /\ start_pc' = b.start_pc
    /\ read_pc' = b.read_pc
    /\ cleanup_pc' = b.cleanup_pc
    /\ fd' = b.fd
    /\ fd_faults' = b.fd_faults
    /\ pty_input' = b.pty_input

\* os.close(fd): on a closed descriptor it fails with EBADF, which both
\* callers swallow.
OsClose(b) ==
    IF b.fd = "open" THEN [b EXCEPT !.fd = "closed"]
    ELSE [b EXCEPT !.fd_faults = @ \cup {"close"}]

\* _handle_data_ready(data): os.write on a closed descriptor fails with
\* EBADF, which is logged.
HandleDataReady(b, data) ==
    IF b.master_fd # None /\ b.running
    THEN IF b.fd = "open" THEN [b EXCEPT !.pty_input = data]
         ELSE [b EXCEPT !.fd_faults = @ \cup {"write"}]
    ELSE b

\* data_ready delivers each emission of the widget to _handle_data_ready.
RECURSIVE DataReady(_, _, _)
DataReady(b, emitted, i) ==
    IF i > Len(emitted) THEN b ELSE DataReady(HandleDataReady(b, emitted[i]), emitted, i + 1)

\* The finally clause of _read_loop, which ends the task.
ReadLoopFinally(b) ==
    [(IF b.master_fd # None THEN OsClose(b) ELSE b) EXCEPT !.read_pc = "done"]

\* task.cancel(): a task that has not run yet never runs; one that waits gets
\* CancelledError at its await; a finished one is left alone.
Cancel(pc) ==
    IF pc = "created" THEN "done"
    ELSE IF pc \in {"spawning", "select"} THEN "cancelled"
    ELSE pc

\* The end of _cleanup: the descriptor.
CleanupClose(b) ==
    [(IF b.master_fd # None THEN [OsClose(b) EXCEPT !.master_fd = None] ELSE b)
        EXCEPT !.cleanup_pc = "done"]

\* _cleanup after the tasks: the process, if any, is terminated and waited
\* for.
CleanupProcess(b) ==
    IF b.process THEN [b EXCEPT !.cleanup_pc = "wait"] ELSE CleanupClose(b)

\* f"Failed to start terminal: {str(e)}\r\n", the fixed words of the message
\* shortened to their first letter.
FailureMessage(e) == << "F" >> \o e \o << CR, NL >>

\* What str(e) can be, shortened likewise.
StartErrors == { << "E" >> }

\* _start_process up to its await: the pseudo-terminal is opened.
StartProcess ==
    /\ start_pc = "created"
    /\ TabBecomes([Tab EXCEPT !.fd = "open", !.start_pc = "spawning"])
    /\ WidgetBecomes(T)

\* _start_process after its await: the shell runs, the read task is created
\* and the descriptor is stored.
ProcessStarted ==
    /\ start_pc = "spawning"
    /\ TabBecomes([Tab EXCEPT !.process = TRUE, !.read_pc = "created",
                              !.master_fd = MasterFd, !.start_pc = "done"])
    /\ WidgetBecomes(T)

\* CancelledError at the await of a cancelled task: _start_process ends,
\* _read_loop ends through its finally clause.
CancelledErrorRaised ==
    /\ \/ /\ start_pc = "cancelled"
          /\ TabBecomes([Tab EXCEPT !.start_pc = "done"])
       \/ /\ read_pc = "cancelled"
          /\ TabBecomes(ReadLoopFinally(Tab))
    /\ WidgetBecomes(T)

\* _read_loop tests _running, on its first turn or after a select() that
\* timed out, and waits in select() again.
ReadLoopTurn ==
    /\ read_pc \in {"created", "select"}
    /\ TabBecomes(IF running THEN [Tab EXCEPT !.read_pc = "select"]
                  ELSE ReadLoopFinally(Tab))
    /\ WidgetBecomes(T)

\* The shell's output the model reads: a status request, which the widget
\* answers, a reset, and a window operation, whose handler raises.
ReadChunks ==
    { << ESC, "[", "5", "n" >>, << ESC, "c" >>, << ESC, "[", "8", "t" >> }

\* _start_process fails, before or at its await: start_pc ends; a descriptor
\* already open stays open.
StartProcessFails(b) == [b EXCEPT !.start_pc = "done"]

\* _read_loop after put_data returned r: an exception of put_data ends the
\* loop, and so does _running turned false.
ReadData(b, r) == IF r.exc # "" \/ ~b.running THEN ReadLoopFinally(b) ELSE b

\* The calls of put_data the tab makes: _read_loop with the data it read,
\* the except clause of _start_process with the failure message.
TabPutDataCalls ==
    { << "_read_loop", data >> : data \in ReadChunks }
        \cup { << "_start_process", FailureMessage(e) >> : e \in StartErrors }

\* put_data(text) called by caller; what the widget emits in reply is written
\* back through data_ready before the caller goes on.
TabPutData(caller, text) ==
    /\ IF caller = "_read_loop" THEN read_pc = "select"
       ELSE start_pc \in {"created", "spawning"}
    /\ \E r \in {PutData(T, text)} :
           /\ WidgetBecomes(r)
           /\ \E b \in {DataReady(Tab, r.out, 1)} :
                  TabBecomes(IF caller = "_read_loop" THEN ReadData(b, r)
                             ELSE StartProcessFails(b))

\* _read_loop meets end of file or an error of select() or os.read().
ReadEnd ==
    /\ read_pc = "select"
    /\ TabBecomes(ReadLoopFinally(Tab))
    /\ WidgetBecomes(T)

\* keyPressEvent, what it emits being written to the shell.
TabKeyPress(event) ==
    \E r \in {KeyPressEvent(T, event[1], event[2], event[3])} :
        /\ WidgetBecomes(r)
        /\ TabBecomes(DataReady(Tab, r.out, 1))

\* close(): the cleanup task is created.
Close ==
    /\ cleanup_pc = "none"
    /\ TabBecomes([Tab EXCEPT !.cleanup_pc = "created"])
    /\ WidgetBecomes(T)

\* _cleanup up to its first await: the tasks are cancelled and, if there are
\* any, gathered.
CleanupBegin ==
    /\ cleanup_pc = "created"
    /\ \E b \in {[Tab EXCEPT !.running = FALSE, !.start_pc = Cancel(@),
                             !.read_pc = Cancel(@)]} :
           TabBecomes(IF start_pc = "done" /\ read_pc \in {"none", "done"}
                      THEN CleanupProcess(b)
                      ELSE [b EXCEPT !.cleanup_pc = "gather"])
    /\ WidgetBecomes(T)

\* _cleanup after gather(): every task has ended.
CleanupGathered ==
    /\ cleanup_pc = "gather"
    /\ start_pc = "done" /\ read_pc \in {"none", "done"}
    /\ TabBecomes(CleanupProcess(Tab))
    /\ WidgetBecomes(T)

\* _cleanup after the wait for the process.
CleanupWaited ==
    /\ cleanup_pc = "wait"
    /\ TabBecomes(CleanupClose([Tab EXCEPT !.process = FALSE]))
    /\ WidgetBecomes(T)

NextTab ==
    \/ StartProcess
    \/ ProcessStarted
    \/ CancelledErrorRaised
    \/ ReadLoopTurn
    \/ \E call \in TabPutDataCalls : TabPutData(call[1], call[2])
    \/ ReadEnd
    \/ \E event \in KeyEvents : TabKeyPress(event)
    \/ Close
    \/ CleanupBegin
    \/ CleanupGathered
    \/ CleanupWaited

SpecTab == Init /\ [][NextTab]_vars

=============================================================================
